---- MODULE Spec2Model ----
(***************************************************************************)
(* sails-sqlite: the adapter's write operations (create, createEach,       *)
(* update, destroy) and its transaction methods over the one shared        *)
(* better-sqlite3 connection of a datastore.                               *)
(*                                                                         *)
(* The table is the one the test suites define (tests/transaction.test.js  *)
(* 62-89 through define-physical-model.js 74-93):                          *)
(*   id      INTEGER PRIMARY KEY AUTOINCREMENT NOT NULL                    *)
(*   email   TEXT UNIQUE            (the declared-unique column)           *)
(* restricted to these two columns.                                        *)
(* SQLite itself is the environment: its statements are modelled by the    *)
(* operators of the section "SQLite", as the driver documents them.        *)
(***************************************************************************)
EXTENDS Integers, Sequences, FiniteSets, TLC

\* ------------------------------------------------------------------ bounds
MaxId == 3
NumEmails == 3
MaxBatch == 2

Ids == 1..MaxId
Emails == 1..NumEmails

\* a primary key that is null or absent in the input, and one that is
\* present but neither a number nor a string
\* (encoded as numbers outside Ids, as are the columns valuesToSet leaves out)
NULL == 0
BADPK == 0 - 1
UNSET == 0 - 2

Max(a, b) == IF a >= b THEN a ELSE b

\* ------------------------------------------------------------------ SQLite
\* The content of the database file as one connection sees it: the rows of
\* the table by rowid, and the table's entry in sqlite_sequence.
EmptyDb == [rows |-> [i \in {} |-> [email |-> 0]], seq |-> 0]

RowIds(rows) == DOMAIN rows

MaxRowid(rows) ==
  IF RowIds(rows) = {} THEN 0
  ELSE CHOOSE m \in RowIds(rows) : \A i \in RowIds(rows) : i <= m

\* errors as the driver throws them (SqliteError: code and message) and as
\* the adapter's own code throws them (Error: no code)
NoErr == [code |-> "", msg |-> "", column |-> ""]
SqliteError(code, msg, column) == [code |-> code, msg |-> msg, column |-> column]
JsError(msg) == [code |-> "", msg |-> msg, column |-> ""]

PrimaryKeyFailed ==
  SqliteError("SQLITE_CONSTRAINT_PRIMARYKEY", "UNIQUE constraint failed", "id")
UniqueFailed(column) ==
  SqliteError("SQLITE_CONSTRAINT_UNIQUE", "UNIQUE constraint failed", column)
NestedBegin ==
  SqliteError("SQLITE_ERROR", "cannot start a transaction within a transaction", "")
SyntaxError == SqliteError("SQLITE_ERROR", "syntax error", "")

\* INSERT of one row.  With AUTOINCREMENT a row without rowid takes one more
\* than the largest rowid the table ever held; the rowid is checked before
\* the unique index.
InsertRow(d, r) ==
  LET id == IF r.id = NULL THEN Max(d.seq, MaxRowid(d.rows)) + 1 ELSE r.id
  IN  IF id \in RowIds(d.rows)
        THEN [err |-> PrimaryKeyFailed, db |-> d, lastInsertRowid |-> 0]
      ELSE IF \E j \in RowIds(d.rows) : d.rows[j].email = r.email
        THEN [err |-> UniqueFailed("email"), db |-> d, lastInsertRowid |-> 0]
      ELSE [err |-> NoErr,
            db |-> [rows |-> [i \in RowIds(d.rows) \cup {id} |->
                                IF i = id
                                  THEN [email |-> r.email]
                                  ELSE d.rows[i]],
                    seq |-> Max(d.seq, id)],
            lastInsertRowid |-> id]

RECURSIVE InsertFrom(_, _, _, _)
InsertFrom(d, recs, k, lastId) ==
  IF k > Len(recs) THEN [err |-> NoErr, db |-> d, lastInsertRowid |-> lastId]
  ELSE LET one == InsertRow(d, recs[k])
       IN  IF one.err # NoErr THEN one
           ELSE InsertFrom(one.db, recs, k + 1, one.lastInsertRowid)

\* INSERT ... VALUES (...), (...): the rows in order; a failing row aborts
\* the whole statement and leaves the database as it was.
InsertStmt(d, recs) ==
  LET r == InsertFrom(d, recs, 1, 0)
  IN  IF r.err # NoErr THEN [r EXCEPT !.db = d] ELSE r

\* UPDATE ... SET ... WHERE: the matching rows in rowid order, each checked
\* against the rows as they are at that moment (rowid first, then the unique
\* index); a failing row aborts the whole statement.  sqlite_sequence is
\* written by INSERT only.
UpdateRow(d, i, v) ==
  LET id == IF v.id = UNSET THEN i ELSE v.id
      new == [email |-> IF v.email = UNSET THEN d.rows[i].email ELSE v.email]
  IN  IF id # i /\ id \in RowIds(d.rows)
        THEN [err |-> PrimaryKeyFailed, db |-> d]
      ELSE IF \E j \in RowIds(d.rows) \ {i} : d.rows[j].email = new.email
        THEN [err |-> UniqueFailed("email"), db |-> d]
      ELSE [err |-> NoErr,
            db |-> [d EXCEPT !.rows =
                      [k \in (RowIds(d.rows) \ {i}) \cup {id} |->
                         IF k = id THEN new ELSE d.rows[k]]]]

RECURSIVE UpdateFrom(_, _, _)
UpdateFrom(d, todo, v) ==
  IF todo = {} THEN [err |-> NoErr, db |-> d]
  ELSE LET i == CHOOSE m \in todo : \A n \in todo : m <= n
           one == UpdateRow(d, i, v)
       IN  IF one.err # NoErr THEN one ELSE UpdateFrom(one.db, todo \ {i}, v)

UpdateStmt(d, ids, v) ==
  LET r == UpdateFrom(d, ids, v)
  IN  IF r.err # NoErr THEN [r EXCEPT !.db = d] ELSE r

\* DELETE FROM ... WHERE
DeleteStmt(d, ids) ==
  [d EXCEPT !.rows = [k \in RowIds(d.rows) \ ids |-> d.rows[k]]]

\* the rows a WHERE clause selects: one column compared with one value,
\* `col = val` or `col >= val` (buildConstraint)
Matching(rows, where) ==
  {i \in RowIds(rows) :
     LET x == IF where.col = "id" THEN i ELSE rows[i].email
     IN  \/ where.op = "=" /\ x = where.val
         \/ where.op = ">=" /\ x >= where.val}

\* SELECT * ... : the rows named, as records, in rowid order
Record(rows, i) == [id |-> i, email |-> rows[i].email]

RECURSIVE SelectRows(_, _)
SelectRows(rows, ids) ==
  IF ids = {} THEN <<>>
  ELSE LET i == CHOOSE m \in ids : \A n \in ids : m <= n
       IN  <<Record(rows, i)>> \o SelectRows(rows, ids \ {i})

\* The connection: what it sees of the database, whether a transaction is
\* open on it (db.inTransaction) and what a ROLLBACK would restore.
NoJournal == EmptyDb
Conn(d, t, j) == [db |-> d, inTransaction |-> t, journal |-> j]

\* BEGIN, COMMIT and ROLLBACK on a connection; each is called only where it
\* succeeds, the callers test inTransaction for the failing case
ExecBegin(c) == Conn(c.db, TRUE, c.db)
ExecCommit(c) == Conn(c.db, FALSE, NoJournal)
ExecRollback(c) == Conn(c.journal, FALSE, NoJournal)

\* db.runInTransaction(fn) = db.transaction(fn)(): BEGIN ... COMMIT on an idle
\* connection, SAVEPOINT ... RELEASE inside an open transaction; when fn
\* throws, what fn wrote is undone and the error is thrown on.  In both cases
\* inTransaction and the journal are afterwards what they were before.
runInTransaction_dropsWrites(c, res) == c

runInTransaction(c, res) ==
  IF res.err = NoErr THEN [c EXCEPT !.db = res.db] ELSE c

\* ------------------------------------------------------- error normalizer
\* what the adapter hands to the caller: code, message, footprint
Footprint(code, e, identity, keys) ==
  [code |-> code, msg |-> e.msg, identity |-> identity, keys |-> keys]
\* an error handed on as it was thrown: no footprint
Raw(e) == [code |-> e.code, msg |-> e.msg, identity |-> "none", keys |-> {}]
NoError == [code |-> "", msg |-> "", identity |-> "none", keys |-> {}]

\* /UNIQUE constraint failed: \w+\.(\w+)/ on the message
UniqueKeys(e) ==
  IF e.msg = "UNIQUE constraint failed" /\ e.column # "" THEN {e.column} ELSE {}

processNativeError(e) ==
  CASE e.code \in {"SQLITE_CONSTRAINT", "SQLITE_CONSTRAINT_UNIQUE"} ->
         IF e.code = "SQLITE_CONSTRAINT_UNIQUE" \/ e.msg = "UNIQUE constraint failed"
           THEN Footprint("E_UNIQUE", e, "notUnique", UniqueKeys(e))
           ELSE Footprint("E_CONSTRAINT", e, "violation", {})
    [] e.code = "SQLITE_BUSY" -> Footprint("E_BUSY", e, "busy", {})
    [] e.code = "SQLITE_READONLY" -> Footprint("E_READONLY", e, "readonly", {})
    [] e.code = "SQLITE_FULL" -> Footprint("E_FULL", e, "full", {})
    [] OTHER -> Footprint("E_UNKNOWN", e, "catchall", {})

\* the exit a machine takes with a normalized error, and what
\* buildStdAdapterMethod's handlers pass to done()
ExitOf(err) == IF err.identity = "notUnique" THEN "notUnique" ELSE "error"
Handled(exit, err) == IF exit = "notUnique" THEN [err EXCEPT !.code = "E_UNIQUE"] ELSE err

\* the outcome of one adapter call: the connection afterwards, the exit
\* taken, the error passed to done() and the records passed to done()
Outcome(c, exit, err, result) ==
  [conn |-> c, exit |-> exit, err |-> Handled(exit, err), result |-> result]
Failed(c, err) == Outcome(c, ExitOf(err), err, <<>>)

\* ---------------------------------------------------------- record marshaler
\* reifyValuesToSet on the primary key: null is dropped from the write set,
\* anything that is neither number nor string throws
InvalidPk == JsError("Invalid primary key value")
reifyThrows(values) == values.id = BADPK

\* -------------------------------------------------------------- operations
\* create-record: INSERT inside runInTransaction, then SELECT by rowid
create(c, newRecord, fetch) ==
  IF reifyThrows(newRecord) THEN Outcome(c, "error", Raw(InvalidPk), <<>>)
  ELSE
    LET info == InsertStmt(c.db, <<newRecord>>)
        c1 == runInTransaction(c, info)
    IN  IF info.err # NoErr THEN Failed(c1, processNativeError(info.err))
        ELSE IF ~fetch THEN Outcome(c1, "success", NoError, <<>>)
        ELSE IF info.lastInsertRowid \notin RowIds(c1.db.rows)
          THEN Outcome(c1, "error",
                       Raw(JsError("Consistency violation: Unable to retrieve the inserted record")),
                       <<>>)
        ELSE Outcome(c1, "success", NoError,
                     SelectRows(c1.db.rows, {info.lastInsertRowid}))

\* create-each-record: one multi-row INSERT inside runInTransaction, then a
\* SELECT of the rowid range firstInsertRowid .. lastInsertRowid
firstInsertRowid_offByOne(lastInsertRowid, recordCount) ==
  lastInsertRowid - recordCount

firstInsertRowid(lastInsertRowid, recordCount) ==
  lastInsertRowid - recordCount + 1

SameColumns(recs) == \A k \in 1..Len(recs) : (recs[k].id = NULL) = (recs[1].id = NULL)

\* the first half of the call: the records reified and checked, the INSERT
\* run inside runInTransaction
createEachInsert(c, newRecords) ==
  IF \E k \in 1..Len(newRecords) : reifyThrows(newRecords[k])
    THEN [done |-> TRUE, out |-> Outcome(c, "error", Raw(InvalidPk), <<>>),
          lastInsertRowid |-> 0]
  ELSE IF ~SameColumns(newRecords)
    THEN [done |-> TRUE, lastInsertRowid |-> 0,
          out |-> Failed(c, processNativeError(
                              JsError("All records must have the same columns")))]
  ELSE
    LET insertInfo == InsertStmt(c.db, newRecords)
        c1 == runInTransaction(c, insertInfo)
    IN  IF insertInfo.err # NoErr
          THEN [done |-> TRUE, lastInsertRowid |-> 0,
                out |-> Failed(c1, processNativeError(insertInfo.err))]
        ELSE [done |-> FALSE, lastInsertRowid |-> insertInfo.lastInsertRowid,
              out |-> Outcome(c1, "success", NoError, <<>>)]

\* the second half, with fetch: the SELECT of the rowid range on the
\* connection as it is by then
createEachSelect(c1, recordCount, lastInsertRowid) ==
  LET first == firstInsertRowid(lastInsertRowid, recordCount)
      phRecords == SelectRows(c1.db.rows,
                     {i \in RowIds(c1.db.rows) :
                        i >= first /\ i <= lastInsertRowid})
  IN  IF Len(phRecords) # recordCount
        THEN Failed(c1, processNativeError(
                      JsError("Consistency violation: Expected records but retrieved")))
      ELSE Outcome(c1, "success", NoError, phRecords)

createEach(c, newRecords, fetch) ==
  LET ins == createEachInsert(c, newRecords)
  IN  IF ins.done \/ ~fetch THEN ins.out
      ELSE createEachSelect(ins.out.conn, Len(newRecords), ins.lastInsertRowid)

\* buildSqliteWhereClause: an empty `where` compiles to the empty string, and
\* the statements built as `... WHERE ${sqliteWhere}` then do not prepare
EmptyWhere == [col |-> "", op |-> "", val |-> 0]
WhereIsEmpty(where) == where.col = ""

\* update-records.  The machine looks its model up with Array.prototype.find
\* on dryOrm.models; buildStdAdapterMethod passes the adapter's registry,
\* which is a dictionary, so through the adapter the lookup itself throws a
\* TypeError before anything is read or written.
ModelLookupFailed == JsError("inputs.dryOrm.models.find is not a function")
PkCollision ==
  JsError("Consistency violation: Updated multiple records to have the same primary key value")

update(c, where, valuesToSet, fetch, modelsIsArray) ==
  IF ~modelsIsArray THEN Outcome(c, "error", Raw(ModelLookupFailed), <<>>)
  ELSE IF reifyThrows(valuesToSet) THEN Outcome(c, "error", Raw(InvalidPk), <<>>)
  ELSE IF c.inTransaction
    \* BEGIN TRANSACTION throws; the catch block's ROLLBACK ends the
    \* transaction that was open
    THEN Failed(ExecRollback(c), processNativeError(NestedBegin))
  ELSE
    LET c1 == ExecBegin(c)
        matched == Matching(c1.db.rows, where)
        affectedIds == IF fetch THEN matched ELSE {}
        updateInfo == UpdateStmt(c1.db, matched, valuesToSet)
        c2 == [c1 EXCEPT !.db = updateInfo.db]
        pkSet == valuesToSet.id # UNSET
        fetchIds == IF pkSet /\ Cardinality(affectedIds) = 1
                      THEN {valuesToSet.id} ELSE affectedIds
    IN  IF WhereIsEmpty(where)
          THEN Failed(ExecRollback(c1), processNativeError(SyntaxError))
        ELSE IF updateInfo.err # NoErr
          THEN Failed(ExecRollback(c2), processNativeError(updateInfo.err))
        ELSE IF pkSet /\ Cardinality(affectedIds) > 1
          THEN Outcome(ExecRollback(c2), "error", Raw(PkCollision), <<>>)
        ELSE IF ~fetch THEN Outcome(ExecCommit(c2), "success", NoError, <<>>)
        ELSE Outcome(ExecCommit(c2), "success", NoError,
                     SelectRows(c2.db.rows, fetchIds \cap RowIds(c2.db.rows)))

\* destroy-records: its catch block hands the error on as it was thrown
destroy(c, where, fetch) ==
  IF c.inTransaction
    THEN Outcome(ExecRollback(c), "error", Raw(NestedBegin), <<>>)
  ELSE
    LET c1 == ExecBegin(c)
        matched == Matching(c1.db.rows, where)
        phRecords == IF fetch THEN SelectRows(c1.db.rows, matched) ELSE <<>>
        c2 == [c1 EXCEPT !.db = DeleteStmt(c1.db, matched)]
    IN  IF WhereIsEmpty(where)
          THEN Outcome(ExecRollback(c1), "error", Raw(SyntaxError), <<>>)
        ELSE Outcome(ExecCommit(c2), "success", NoError, phRecords)

\* ---------------------------------------------------- transaction coordinator
AlreadyActive == JsError("Transaction is already active on this connection.")
NoActiveTransaction == JsError("No active transaction")

beginTransaction_unguarded(c) ==
  IF c.inTransaction THEN Outcome(c, "error", Raw(NestedBegin), <<>>)
  ELSE Outcome(ExecBegin(c), "success", NoError, <<>>)

beginTransaction(c) ==
  IF c.inTransaction THEN Outcome(c, "error", Raw(AlreadyActive), <<>>)
  ELSE Outcome(ExecBegin(c), "success", NoError, <<>>)

commitTransaction_unguarded(c) ==
  Outcome(ExecCommit(c), "success", NoError, <<>>)

commitTransaction(c) ==
  IF ~c.inTransaction THEN Outcome(c, "error", Raw(NoActiveTransaction), <<>>)
  ELSE Outcome(ExecCommit(c), "success", NoError, <<>>)

rollbackTransaction(c) ==
  IF ~c.inTransaction THEN Outcome(c, "error", Raw(NoActiveTransaction), <<>>)
  ELSE Outcome(ExecRollback(c), "success", NoError, <<>>)

\* --------------------------------------------------------------- catalog
\* The tables of the database and SQLite's sqlite_sequence table.  A name is
\* the list of the parts its underscores separate: users_id_seq is
\* <<"users", "id", "seq">>.
MaxSequence == 2

TableNames == {<<"users">>, <<"pets">>}
SequenceSuffixes == {<<"id", "seq">>, <<"some", "other", "seq">>}
SequenceNames == TableNames \cup {t \o suffix : t \in TableNames, suffix \in SequenceSuffixes}

NoEntry == 0 - 1

\* tables: the tables that exist; autoIncrement: those with an AUTOINCREMENT
\* key; sequenceTable: sqlite_sequence exists; sequence: its rows
EmptyCatalog ==
  [tables |-> {}, autoIncrement |-> {}, sequenceTable |-> FALSE,
   sequence |-> [name \in SequenceNames |-> NoEntry]]

\* CREATE TABLE IF NOT EXISTS: the first AUTOINCREMENT table brings
\* sqlite_sequence into being
definePhysicalModel(catalog, tableName, autoIncrement) ==
  IF tableName \in catalog.tables THEN [exit |-> "success", catalog |-> catalog]
  ELSE [exit |-> "success",
        catalog |-> [catalog EXCEPT
                       !.tables = @ \cup {tableName},
                       !.autoIncrement = IF autoIncrement THEN @ \cup {tableName} ELSE @,
                       !.sequenceTable = @ \/ autoIncrement]]

\* an INSERT into a table with an AUTOINCREMENT key moves its row of
\* sqlite_sequence to the new key
insertInto(catalog, tableName) ==
  IF tableName \in catalog.autoIncrement
    THEN [catalog EXCEPT !.sequence[tableName] = Max(@, 0) + 1]
  ELSE catalog

\* DROP TABLE IF EXISTS: SQLite deletes the sqlite_sequence row of a table
\* with an AUTOINCREMENT key along with the table
DropTable(catalog, tableName) ==
  [catalog EXCEPT
     !.tables = @ \ {tableName},
     !.autoIncrement = @ \ {tableName},
     !.sequence[tableName] = IF tableName \in catalog.autoIncrement THEN NoEntry ELSE @]

\* DELETE FROM sqlite_sequence WHERE name = ?
cleanSequence(catalog, tableName) ==
  [catalog EXCEPT !.sequence[tableName] = NoEntry]

NoSequenceTable == "no such table: sqlite_sequence"

ignoredError_none(message) == FALSE

\* error.message.includes('no such table: sqlite_sequence')
ignoredError(message) == message = NoSequenceTable

dropPhysicalModel(catalog, tableName) ==
  LET dropped == DropTable(catalog, tableName)
  IN  IF dropped.sequenceTable
        THEN [exit |-> "success", catalog |-> cleanSequence(dropped, tableName)]
      ELSE [exit |-> IF ignoredError(NoSequenceTable) THEN "success" ELSE "error",
            catalog |-> dropped]

tableExists_always(catalog, tableName) == TRUE

\* SELECT name FROM sqlite_master WHERE type='table' AND name = ?
tableExists(catalog, tableName) == tableName \in catalog.tables

\* the machine takes the sequence name for the table name as it is
setPhysicalSequence(catalog, sequenceName, sequenceValue) ==
  LET tableName == sequenceName
      newSequenceValue == sequenceValue
  IN  IF ~tableExists(catalog, tableName) THEN [exit |-> "notFound", catalog |-> catalog]
      ELSE IF ~catalog.sequenceTable
        THEN [exit |-> IF ignoredError(NoSequenceTable) THEN "success" ELSE "error",
              catalog |-> catalog]
      ELSE [exit |-> "success",
            catalog |-> [catalog EXCEPT !.sequence[tableName] = newSequenceValue - 1]]

\* the catalog once the users table is defined
UsersCatalog == definePhysicalModel(EmptyCatalog, <<"users">>, TRUE).catalog

\* the adapter's setSequence: notFound is logged and done() is called
\* without an error
setSequence(catalog, sequenceName, sequenceValue) ==
  LET out == setPhysicalSequence(catalog, sequenceName, sequenceValue)
  IN  [exit |-> IF out.exit = "error" THEN "error" ELSE "success",
       catalog |-> out.catalog]

\* ---------------------------------------------------------------- registry
\* The adapter's two dictionaries.  An entry of registeredDryModels holds the
\* model's identity and table name; registeredWith is a history field, which
\* the code does not store: the datastore the model was registered with.
DryModel(modelIdentity, datastoreName) ==
  [identity |-> modelIdentity, tableName |-> modelIdentity, registeredWith |-> datastoreName]

NoModels == [m \in {} |-> DryModel("", "")]

NoIdentity == Raw(JsError("Consistency violation: A datastore should contain an identity property"))
DatastoreRegistered == Raw(JsError("Consistency violation: Cannot register datastore, because it is already registered with this adapter"))
ModelRegistered == Raw(JsError("Consistency violation: Cannot register model, because it is already registered with this adapter"))
ManagerFailed == Raw(JsError("Consistency violation: Unexpected error creating db connection manager"))
FalseyName == Raw(JsError("Consistency violation: Adapter received unexpected falsey datastore name"))
NotRegistered == Raw(JsError("Consistency violation: Attempting to tear down a datastore which is not currently registered with this adapter"))
DestroyFailed == Raw(JsError("Encountered unexpected error when attempting to destroy the connection manager"))

\* the loop over Object.entries(models): it stops at the first model that is
\* registered already, with the ones before it tracked
RECURSIVE trackModels(_, _, _)
trackModels(dryModels, models, datastoreName) ==
  IF models = <<>> THEN [threw |-> FALSE, dryModels |-> dryModels]
  ELSE IF Head(models) \in DOMAIN dryModels THEN [threw |-> TRUE, dryModels |-> dryModels]
  ELSE trackModels([m \in DOMAIN dryModels \cup {Head(models)} |->
                      IF m = Head(models) THEN DryModel(m, datastoreName) ELSE dryModels[m]],
                   Tail(models), datastoreName)

Registry(exit, err, dsEntries, dryModels) ==
  [exit |-> exit, err |-> err, dsEntries |-> dsEntries, dryModels |-> dryModels]

registerDatastore(dsEntries, dryModels, datastoreName, models, managerCreated) ==
  IF datastoreName = "" THEN Registry("error", NoIdentity, dsEntries, dryModels)
  ELSE IF datastoreName \in dsEntries
    THEN Registry("error", DatastoreRegistered, dsEntries, dryModels)
  ELSE IF ~managerCreated THEN Registry("error", ManagerFailed, dsEntries, dryModels)
  ELSE LET tracked == trackModels(dryModels, models, datastoreName)
       IN  Registry(IF tracked.threw THEN "error" ELSE "success",
                    IF tracked.threw THEN ModelRegistered ELSE NoError,
                    dsEntries \cup {datastoreName}, tracked.dryModels)

\* teardown deletes the models whose entry has a `datastore` property equal
\* to the name
teardown(dsEntries, dryModels, datastoreName, managerDestroyed) ==
  IF datastoreName = "" THEN Registry("error", FalseyName, dsEntries, dryModels)
  ELSE IF datastoreName \notin dsEntries
    THEN Registry("error", NotRegistered, dsEntries, dryModels)
  ELSE IF ~managerDestroyed THEN Registry("error", DestroyFailed, dsEntries, dryModels)
  ELSE Registry("success", NoError, dsEntries \ {datastoreName},
                [m \in {x \in DOMAIN dryModels :
                          ~(/\ "datastore" \in DOMAIN dryModels[x]
                            /\ dryModels[x].datastore = datastoreName)} |-> dryModels[m]])

\* ------------------------------------------------------------------- state
VARIABLES
  db,             \* what the connection sees of the database: rows, seq
  inTransaction,  \* db.inTransaction
  journal,        \* what ROLLBACK restores while a transaction is open
  last,           \* the latest adapter call and what it passed to done()
  call,           \* the arguments of that call, where a specification records them
  pending,        \* the createEach call that has run its INSERT and not yet its SELECT
  executed,       \* the statements the latest call ran, where a specification records them
  txBase,         \* the rows as they were at the latest successful beginTransaction
  txCreated,      \* the e-mails of the records created by successful calls since then
  schema,         \* the tables that exist and the rows of sqlite_sequence
  registeredDsEntries,  \* the datastores registered with the adapter
  registeredDryModels   \* the models registered with the adapter, by identity

vars == <<db, inTransaction, journal, last, call, pending, executed, txBase, txCreated,
          schema, registeredDsEntries, registeredDryModels>>

conn == Conn(db, inTransaction, journal)

NoRows == EmptyDb.rows
NoCall == <<>>
NoPending == [recordCount |-> 0, lastInsertRowid |-> 0]
NoStatements == <<>>
EmailsOf(rows) == {rows[i].email : i \in RowIds(rows)}

\* the inputs the calls are drawn from
NewRecordInputs == [id : Ids \cup {NULL, BADPK}, email : Emails]
\* batches of well-formed records, and batches of one record with an invalid pk
BatchInputs ==
  UNION {[1..n -> [id : Ids \cup {NULL}, email : Emails]] : n \in 1..MaxBatch}
    \cup {<<r>> : r \in [id : {BADPK}, email : Emails]}
WhereInputs ==
  {EmptyWhere} \cup [col : {"id"}, op : {"=", ">="}, val : Ids]
    \cup [col : {"email"}, op : {"="}, val : Emails]
\* valuesToSet naming one column
ValuesToSetInputs ==
  [id : Ids \cup {BADPK}, email : {UNSET}] \cup [id : {UNSET}, email : Emails]

\* rowids stay within the model's bound
InBounds(out) ==
  /\ out.conn.db.seq <= MaxId
  /\ RowIds(out.conn.db.rows) \subseteq Ids

NoLast == [op |-> "none", exit |-> "success", err |-> NoError, result |-> <<>>]

Init ==
  /\ db = EmptyDb
  /\ inTransaction = FALSE
  /\ journal = NoJournal
  /\ last = NoLast
  /\ call = NoCall
  /\ pending = NoPending
  /\ executed = NoStatements
  /\ txBase = NoRows
  /\ txCreated = {}
  /\ schema = UsersCatalog
  /\ registeredDsEntries = {}
  /\ registeredDryModels = NoModels

\* one adapter call returning: the connection and the call's outcome.
\* `made` is the e-mails of the records the call was asked to create.
Returns(op, out, made, args) ==
  /\ db' = out.conn.db
  /\ inTransaction' = out.conn.inTransaction
  /\ journal' = out.conn.journal
  /\ last' = [op |-> op, exit |-> out.exit, err |-> out.err, result |-> out.result]
  /\ call' = args
  /\ pending' = NoPending
  /\ executed' = NoStatements
  /\ txBase' = IF op = "beginTransaction" /\ out.exit = "success" THEN db.rows
                ELSE IF inTransaction THEN txBase ELSE NoRows
  /\ txCreated' = IF ~inTransaction THEN {}
                   ELSE IF out.exit = "success" THEN txCreated \cup made
                   ELSE txCreated
  /\ schema' = schema
  /\ registeredDsEntries' = registeredDsEntries
  /\ registeredDryModels' = registeredDryModels

BatchEmails(recs) == {recs[k].email : k \in 1..Len(recs)}

\* the step a call with given arguments makes
CreateStep(r, fetch) ==
  Returns("create", create(conn, r, fetch), {r.email}, NoCall)
CreateEachStep(recs, fetch) ==
  Returns("createEach", createEach(conn, recs, fetch), BatchEmails(recs), NoCall)
UpdateStep(w, v, fetch, modelsIsArray) ==
  Returns("update", update(conn, w, v, fetch, modelsIsArray), {}, NoCall)
DestroyStep(w, fetch) ==
  Returns("destroy", destroy(conn, w, fetch), {}, NoCall)

\* The actions: one per adapter method.  `out` is the outcome of the call on
\* the connection as it is; the call is made if it keeps the rowids in range.
Create == \E r \in NewRecordInputs, fetch \in BOOLEAN :
  \E out \in {create(conn, r, fetch)} :
    /\ InBounds(out)
    /\ Returns("create", out, {r.email}, NoCall)

CreateEach == \E recs \in BatchInputs, fetch \in BOOLEAN :
  \E out \in {createEach(conn, recs, fetch)} :
    /\ InBounds(out)
    /\ Returns("createEach", out, BatchEmails(recs), NoCall)

\* update as the machine expects to be called (dryOrm.models an array) ...
Update == \E w \in WhereInputs, v \in ValuesToSetInputs, fetch \in BOOLEAN :
  \E out \in {update(conn, w, v, fetch, TRUE)} :
    /\ InBounds(out)
    /\ Returns("update", out, {}, NoCall)

\* ... and through the adapter (the registry is a dictionary): the lookup
\* throws before the query is read, whatever valuesToSet holds
UpdateThroughAdapter == \E w \in WhereInputs, fetch \in BOOLEAN :
  \E out \in {update(conn, w, [id |-> UNSET, email |-> 1], fetch, FALSE)} :
    /\ InBounds(out)
    /\ Returns("update", out, {}, NoCall)

Destroy == \E w \in WhereInputs, fetch \in BOOLEAN :
  \E out \in {destroy(conn, w, fetch)} :
    /\ InBounds(out)
    /\ Returns("destroy", out, {}, NoCall)

BeginTransaction ==
  \E out \in {beginTransaction(conn)} :
    /\ InBounds(out)
    /\ Returns("beginTransaction", out, {}, NoCall)

CommitTransaction ==
  \E out \in {commitTransaction(conn)} :
    /\ InBounds(out)
    /\ Returns("commitTransaction", out, {}, NoCall)

RollbackTransaction ==
  \E out \in {rollbackTransaction(conn)} :
    /\ InBounds(out)
    /\ Returns("rollbackTransaction", out, {}, NoCall)

Next ==
  \/ Create
  \/ CreateEach
  \/ Update
  \/ UpdateThroughAdapter
  \/ Destroy
  \/ BeginTransaction
  \/ CommitTransaction
  \/ RollbackTransaction

Spec == Init /\ [][Next]_vars

\* ------------------------------------------------------------------ claims
\* C1: a createEach, update or destroy that ends in the error or notUnique
\* exit leaves the table exactly as it was before the call.
C1_FailedWriteLeavesTable ==
  [][(/\ last'.op \in {"createEach", "update", "destroy"}
      /\ last'.exit \in {"error", "notUnique"})
       => db'.rows = db.rows]_vars

\* C2: after a successful commitTransaction every record created since the
\* successful beginTransaction is in the table; after a successful
\* rollbackTransaction none of them is, and the rows are those the table
\* held at beginTransaction.
C2_CommitKeepsRollbackDiscards ==
  /\ (last.op = "commitTransaction" /\ last.exit = "success")
       => txCreated \subseteq EmailsOf(db.rows)
  /\ (last.op = "rollbackTransaction" /\ last.exit = "success")
       => (db.rows = txBase /\ txCreated \cap EmailsOf(db.rows) = {})

C2_CommittedAfterCreates ==
  /\ last.op = "commitTransaction"
  /\ last.exit = "success"
  /\ txCreated # {}
  /\ txBase # NoRows

\* C3: beginTransaction on a connection whose transaction is Active fails
\* with 'Transaction is already active on this connection.'; the open
\* transaction stays Active, with its pending writes and with the state its
\* rollback restores, so no second transaction is opened.
C3_BeginWhileActiveRejected ==
  [][(inTransaction /\ last'.op = "beginTransaction")
       => /\ last'.exit = "error"
          /\ last'.err.msg = AlreadyActive.msg
          /\ inTransaction'
          /\ db' = db
          /\ journal' = journal]_vars

C3_RejectedWithPendingWrites ==
  /\ last.op = "beginTransaction"
  /\ last.exit = "error"
  /\ inTransaction
  /\ db.rows # journal.rows

\* C4: commitTransaction or rollbackTransaction on an Idle connection fails
\* with 'No active transaction' and leaves the connection Idle and the
\* database unchanged.
C4_EndWhileIdleRejected ==
  [][(~inTransaction /\ last'.op \in {"commitTransaction", "rollbackTransaction"})
       => /\ last'.exit = "error"
          /\ last'.err.msg = NoActiveTransaction.msg
          /\ ~inTransaction'
          /\ db' = db]_vars

C4_RejectedOnIdle ==
  /\ last.op \in {"commitTransaction", "rollbackTransaction"}
  /\ last.exit = "error"
  /\ ~inTransaction
  /\ db.rows # NoRows

\* C5: the connection becomes Active only by a successful beginTransaction
\* and becomes Idle only by a successful commitTransaction or
\* rollbackTransaction; a create while Active leaves it Active.
C5_OnlyTransactionCallsChangeState ==
  [][/\ (~inTransaction /\ inTransaction')
          => (last'.op = "beginTransaction" /\ last'.exit = "success")
     /\ (inTransaction /\ ~inTransaction')
          => (/\ last'.op \in {"commitTransaction", "rollbackTransaction"}
              /\ last'.exit = "success")
     /\ (inTransaction /\ last'.op = "create") => inTransaction']_vars

\* what the claims about update and create call a write's case
\* an UPDATE statement that would run to its end on these rows
UpdatesCleanly(d, w, v) ==
  /\ v.id # BADPK
  /\ Matching(d.rows, w) # {}
  /\ UpdateStmt(d, Matching(d.rows, w), v).err = NoErr
\* a returned record showing the values that were set
Applied(rec, v) ==
  /\ v.id = UNSET \/ rec.id = v.id
  /\ v.email = UNSET \/ rec.email = v.email
\* the declared-unique columns of the table
DeclaredUnique == {"email"}
\* the call ended as notUnique: exit, code E_UNIQUE, footprint, key list
ReportedNotUnique(l, column) ==
  /\ l.exit = "notUnique"
  /\ l.err.code = "E_UNIQUE"
  /\ l.err.identity = "notUnique"
  /\ column \in l.err.keys
\* writes that would leave two rows with the same e-mail
CreateCollides(rows, r) == r.id # BADPK /\ r.email \in EmailsOf(rows)
CreateEachCollides(rows, recs) ==
  /\ \A k \in 1..Len(recs) : recs[k].id # BADPK
  /\ SameColumns(recs)
  /\ \/ \E k \in 1..Len(recs) : recs[k].email \in EmailsOf(rows)
     \/ \E k, l \in 1..Len(recs) : k < l /\ recs[k].email = recs[l].email
UpdateCollides(rows, w, v) ==
  /\ v.email # UNSET
  /\ Matching(rows, w) # {}
  /\ \/ Cardinality(Matching(rows, w)) >= 2
     \/ \E j \in RowIds(rows) \ Matching(rows, w) : rows[j].email = v.email

\* C6: an update with fetch whose caller holds an Active transaction
\* succeeds, returns the updated records and leaves that transaction Active
\* with the state its rollback restores.
C6_UpdateInsideTransaction ==
  [][(inTransaction /\ last'.op = "update")
       => \A w \in WhereInputs, v \in ValuesToSetInputs :
            (UpdateStep(w, v, TRUE, TRUE) /\ UpdatesCleanly(db, w, v))
              => /\ last'.exit = "success"
                 /\ Len(last'.result) >= 1
                 /\ \A k \in 1..Len(last'.result) : Applied(last'.result[k], v)
                 /\ inTransaction'
                 /\ journal' = journal]_vars

\* C7: a create, createEach or update whose write violates the declared
\* unique column ends as notUnique (code E_UNIQUE, footprint notUnique) with
\* that column in the key list, never as a generic or catch-all error.
C7_UniqueViolationIsNotUnique ==
  [][/\ last'.op = "create"
          => \A r \in NewRecordInputs, fetch \in BOOLEAN :
               (CreateStep(r, fetch) /\ CreateCollides(db.rows, r))
                 => \A column \in DeclaredUnique : ReportedNotUnique(last', column)
     /\ last'.op = "createEach"
          => \A recs \in BatchInputs, fetch \in BOOLEAN :
               (CreateEachStep(recs, fetch) /\ CreateEachCollides(db.rows, recs))
                 => \A column \in DeclaredUnique : ReportedNotUnique(last', column)
     /\ last'.op = "update"
          => \A w \in WhereInputs, v \in ValuesToSetInputs, fetch \in BOOLEAN :
               (UpdateStep(w, v, fetch, TRUE) /\ UpdateCollides(db.rows, w, v))
                 => \A column \in DeclaredUnique : ReportedNotUnique(last', column)]_vars

\* C8: an update that matches two or more rows and sets the primary key
\* ends in error with the consistency violation 'Updated multiple records
\* to have the same primary key value', with fetch or without, and leaves
\* the rows unchanged.
C8_PkCollisionIsConsistencyViolation ==
  [][last'.op = "update"
       => \A w \in WhereInputs, v \in ValuesToSetInputs, fetch \in BOOLEAN :
            (/\ UpdateStep(w, v, fetch, TRUE)
             /\ v.id \in Ids
             /\ Cardinality(Matching(db.rows, w)) >= 2)
              => /\ last'.exit = "error"
                 /\ last'.err.msg = PkCollision.msg
                 /\ db'.rows = db.rows]_vars

\* One createEach call, its arguments recorded, from any content the table
\* can have: rows with distinct e-mails under any rowids, and a sequence
\* entry that is zero only while nothing was ever inserted.  The call is
\* made on an idle connection or right after a beginTransaction.
TableRows ==
  {rows \in UNION {[S -> [email : Emails]] : S \in SUBSET Ids} :
     \A i, j \in RowIds(rows) : rows[i].email = rows[j].email => i = j}
TableStates ==
  {d \in [rows : TableRows, seq : 0..MaxId] : d.rows # NoRows => d.seq >= 1}

InitCreateEach ==
  /\ db \in TableStates
  /\ inTransaction \in BOOLEAN
  /\ journal = IF inTransaction THEN db ELSE NoJournal
  /\ last = NoLast
  /\ call = NoCall
  /\ pending = NoPending
  /\ executed = NoStatements
  /\ txBase = IF inTransaction THEN db.rows ELSE NoRows
  /\ txCreated = {}
  /\ schema = UsersCatalog
  /\ registeredDsEntries = {}
  /\ registeredDryModels = NoModels

CreateEachCall ==
  /\ last.op = "none"
  /\ \E recs \in BatchInputs, fetch \in BOOLEAN :
       \E out \in {createEach(conn, recs, fetch)} :
         /\ InBounds(out)
         /\ Returns("createEach", out, BatchEmails(recs),
                    [newRecords |-> recs, fetch |-> fetch])

NextCreateEach == CreateEachCall

SpecCreateEach == InitCreateEach /\ [][NextCreateEach]_vars

\* the call was a createEach with fetch of records that name no primary key
BatchWithoutPk ==
  /\ last.op = "createEach"
  /\ call.fetch
  /\ \A k \in 1..Len(call.newRecords) : call.newRecords[k].id = NULL

\* C9: a createEach with fetch of N records without explicit primary keys
\* returns exactly N records, the i-th being the i-th input record, with
\* primary keys that increase by one from each record to the next, whatever
\* rows the table already holds; the only other way it ends is notUnique.
C9_BatchKeysFollowInputOrder ==
  BatchWithoutPk
    => /\ last.exit \in {"success", "notUnique"}
       /\ last.exit = "success"
            => /\ Len(last.result) = Len(call.newRecords)
               /\ \A k \in 1..Len(last.result) :
                    /\ last.result[k].email = call.newRecords[k].email
                    /\ last.result[k].id = last.result[1].id + (k - 1)
                    /\ last.result[k] = Record(db.rows, last.result[k].id)

C9_BatchAfterExistingRows ==
  /\ BatchWithoutPk
  /\ last.exit = "success"
  /\ Len(call.newRecords) = MaxBatch
  /\ Cardinality(RowIds(db.rows)) > MaxBatch
  /\ last.result[1].id > 1

\* C10: a createEach with fetch that ends in success returns exactly the
\* rows this call inserted, explicit primary keys included.
C10_FetchReturnsInsertedRows ==
  [][(/\ last'.op = "createEach"
      /\ last'.exit = "success"
      /\ \E recs \in BatchInputs : CreateEachStep(recs, TRUE))
       => {last'.result[k] : k \in 1..Len(last'.result)}
            = {Record(db'.rows, i) : i \in RowIds(db'.rows) \ RowIds(db.rows)}]_vars

\* createEach with fetch statement by statement, beside another writer on
\* the same database file.  The other writer can commit whenever this
\* connection holds no write lock: it holds one from the first write of an
\* open transaction to that transaction's end, and runInTransaction on an
\* idle connection has given it up when it returns.
CreateEachInsert ==
  /\ last.op = "none"
  /\ pending = NoPending
  /\ \E recs \in BatchInputs :
       \E ins \in {createEachInsert(conn, recs)} :
         /\ InBounds(ins.out)
         /\ IF ins.done
              THEN Returns("createEach", ins.out, BatchEmails(recs),
                           [newRecords |-> recs, fetch |-> TRUE])
              ELSE /\ db' = ins.out.conn.db
                   /\ pending' = [recordCount |-> Len(recs),
                                  lastInsertRowid |-> ins.lastInsertRowid]
                   /\ call' = [newRecords |-> recs, fetch |-> TRUE]
                   /\ UNCHANGED <<inTransaction, journal, last, executed, txBase, txCreated, schema, registeredDsEntries, registeredDryModels>>

CreateEachSelect ==
  /\ pending # NoPending
  /\ \E out \in {createEachSelect(conn, pending.recordCount, pending.lastInsertRowid)} :
       Returns("createEach", out, BatchEmails(call.newRecords), call)

\* a statement of the other writer: a DELETE of one row, or an INSERT of one
\* row without rowid
OtherWriter ==
  /\ ~inTransaction
  /\ last.op = "none"
  /\ \/ \E i \in RowIds(db.rows) : db' = DeleteStmt(db, {i})
     \/ \E e \in Emails :
          \E ins \in {InsertStmt(db, <<[id |-> NULL, email |-> e]>>)} :
            /\ ins.err = NoErr
            /\ ins.db.seq <= MaxId
            /\ db' = ins.db
  /\ UNCHANGED <<inTransaction, journal, last, call, pending, executed, txBase, txCreated, schema, registeredDsEntries, registeredDryModels>>

NextWriters == CreateEachInsert \/ CreateEachSelect \/ OtherWriter

SpecWriters == InitCreateEach /\ [][NextWriters]_vars

\* C11: between the INSERT and the SELECT of a createEach with fetch no
\* statement of another writer takes effect: the database the SELECT reads
\* is the one the INSERT left.
C11_InsertAndSelectAtomic ==
  [][(pending # NoPending /\ pending' # NoPending) => db' = db]_vars

\* the codes of the errors the driver throws
NativeCodes ==
  {"SQLITE_ERROR", "SQLITE_CONSTRAINT", "SQLITE_CONSTRAINT_UNIQUE",
   "SQLITE_CONSTRAINT_PRIMARYKEY", "SQLITE_BUSY", "SQLITE_READONLY", "SQLITE_FULL"}

\* C13: an error the driver threw reaches the caller only after the error
\* normalizer gave it a footprint: no call ends with an error that still
\* carries the driver's code and has no footprint.
C13_NativeErrorsNormalized ==
  (/\ last.op \in {"create", "createEach", "update", "destroy"}
   /\ last.exit # "success"
   /\ last.err.code \in NativeCodes)
    => last.err.identity # "none"

\* -------------------------------------------------------------------- join
\* The join machine over what convertJoinCriteria hands it: the parent
\* statement's rows (by primary key) and the child statement templates, each
\* an `in` or a `union` template that may carry a limit and a skip.  The
\* child table holds children[p] rows for parent key p.
MaxChildren == 2
MaxTemplates == 2
MaxLimit == 1

NoLimit == 0 - 1
NoSkip == 0 - 1

Min(a, b) == IF a <= b THEN a ELSE b

Pagination ==
  {[limit |-> NoLimit, skip |-> NoSkip]} \cup [limit : 1..MaxLimit, skip : {NoSkip, 1}]
Templates ==
  {[queryType |-> "in", limit |-> NoLimit, skip |-> NoSkip]}
    \cup {[queryType |-> "union", limit |-> pg.limit, skip |-> pg.skip] : pg \in Pagination}

\* the child rows of one parent key, and of a list of parent keys
ChildRows(children, p) == [k \in 1..children[p] |-> [fk |-> p, n |-> k]]

RECURSIVE ChildRowsOfAll(_, _)
ChildRowsOfAll(children, keys) ==
  IF keys = <<>> THEN <<>>
  ELSE ChildRows(children, Head(keys)) \o ChildRowsOfAll(children, Tail(keys))

\* LIMIT and OFFSET on a statement's rows
Page(rows, limit, skip) ==
  LET from == IF skip = NoSkip THEN 1 ELSE skip + 1
      to == IF limit = NoLimit THEN Len(rows) ELSE Min(Len(rows), from + limit - 1)
  IN  SubSeq(rows, from, to)

\* a statement as the connection is given it
Statement(t, queryType, keys, limit, skip) ==
  [template |-> t, queryType |-> queryType, keys |-> keys, limit |-> limit, skip |-> skip]

\* compileStatement of { unionAll: [...] }: limit and skip are deleted from
\* every member and not applied to the whole
UnionAll(t, keys) == Statement(t, "unionAll", keys, NoLimit, NoSkip)

\* one statement per parent key, each with the template's limit and skip
RECURSIVE PerParent(_, _, _, _)
PerParent(t, template, keys, children) ==
  IF keys = <<>> THEN [statements |-> <<>>, rows |-> <<>>]
  ELSE LET rest == PerParent(t, template, Tail(keys), children)
       IN  [statements |->
              <<Statement(t, "union", <<Head(keys)>>, template.limit, template.skip)>>
                \o rest.statements,
            rows |-> Page(ChildRows(children, Head(keys)), template.limit, template.skip)
                       \o rest.rows]

hasPerEntityPagination(template) ==
  template.limit # NoLimit \/ template.skip # NoSkip

\* one child statement template run for the parent keys
runChildStatement(t, template, parentKeys, children) ==
  IF template.queryType = "in"
    THEN [statements |-> <<Statement(t, "in", parentKeys, template.limit, template.skip)>>,
          rows |-> Page(ChildRowsOfAll(children, parentKeys), template.limit, template.skip)]
  ELSE IF hasPerEntityPagination(template) /\ Len(parentKeys) > 1
    THEN PerParent(t, template, parentKeys, children)
  ELSE [statements |-> <<UnionAll(t, parentKeys)>>,
        rows |-> ChildRowsOfAll(children, parentKeys)]

RECURSIVE runChildStatements(_, _, _, _)
runChildStatements(t, childStatements, parentKeys, children) ==
  IF t > Len(childStatements) THEN [statements |-> <<>>, fetched |-> <<>>]
  ELSE LET one == runChildStatement(t, childStatements[t], parentKeys, children)
           rest == runChildStatements(t + 1, childStatements, parentKeys, children)
       IN  [statements |-> one.statements \o rest.statements,
            fetched |-> <<one.rows>> \o rest.fetched]

earlyExit_withoutJoinsOnly(hasJoins, parentResults) == ~hasJoins

earlyExit(hasJoins, parentResults) == ~hasJoins \/ Len(parentResults) = 0

ParentStatement == Statement(0, "parent", <<>>, NoLimit, NoSkip)

join(parentResults, hasJoins, childStatements, children) ==
  IF earlyExit(hasJoins, parentResults)
    THEN [exit |-> "success", records |-> parentResults,
          statements |-> <<ParentStatement>>, fetched |-> <<>>]
  ELSE LET run == runChildStatements(1, childStatements, parentResults, children)
       IN  [exit |-> "success", records |-> parentResults,
            statements |-> <<ParentStatement>> \o run.statements,
            fetched |-> run.fetched]

\* one join call, its arguments and the statements it ran recorded
MaxParents == 2
ParentKeys == 1..MaxParents

RECURSIVE Ascending(_)
Ascending(S) ==
  IF S = {} THEN <<>>
  ELSE LET m == CHOOSE x \in S : \A y \in S : x <= y
       IN  <<m>> \o Ascending(S \ {m})

ParentResultInputs == {Ascending(S) : S \in SUBSET ParentKeys}
ChildStatementInputs == UNION {[1..n -> Templates] : n \in 0..MaxTemplates}
ChildrenInputs == [ParentKeys -> 0..MaxChildren]

JoinCall ==
  /\ last.op = "none"
  /\ \E parentResults \in ParentResultInputs, hasJoins \in BOOLEAN,
        childStatements \in ChildStatementInputs, children \in ChildrenInputs :
       \E out \in {join(parentResults, hasJoins, childStatements, children)} :
         /\ last' = [op |-> "join", exit |-> out.exit, err |-> NoError,
                     result |-> [records |-> out.records, fetched |-> out.fetched]]
         /\ call' = [parentResults |-> parentResults, hasJoins |-> hasJoins,
                     childStatements |-> childStatements, children |-> children]
         /\ executed' = out.statements
  /\ UNCHANGED <<db, inTransaction, journal, pending, txBase, txCreated, schema, registeredDsEntries, registeredDryModels>>

NextJoin == JoinCall

SpecJoin == Init /\ [][NextJoin]_vars

ChildStatementsRun == {k \in 1..Len(executed) : executed[k].queryType # "parent"}

\* C12: a join whose parent statement returns no row runs no child
\* statement and returns the empty list, whatever child statement templates
\* the query carries.
C12_NoParentsNoChildStatements ==
  (last.op = "join" /\ call.parentResults = <<>>)
    => /\ last.exit = "success"
       /\ last.result.records = <<>>
       /\ last.result.fetched = <<>>
       /\ ChildStatementsRun = {}

C12_EmptyParentWithTemplates ==
  /\ last.op = "join"
  /\ call.parentResults = <<>>
  /\ call.hasJoins
  /\ Len(call.childStatements) = MaxTemplates
  /\ \E t \in 1..MaxTemplates : call.childStatements[t].queryType = "in"
  /\ \E t \in 1..MaxTemplates : call.childStatements[t].queryType = "union"

\* the rows template t fetched for parent key p
FetchedFor(t, p) ==
  {k \in 1..Len(last.result.fetched[t]) : last.result.fetched[t][k].fk = p}

\* C20: for every union template that carries a limit or a skip the join
\* runs one child statement per parent key, each with that limit and skip,
\* for one parent row and for more, so that no parent gets more than
\* `limit` children.
C20_OneStatementPerParent ==
  (last.op = "join" /\ call.hasJoins /\ call.parentResults # <<>>)
    => \A t \in 1..Len(call.childStatements) :
         LET template == call.childStatements[t]
         IN  (template.queryType = "union" /\ hasPerEntityPagination(template))
               => /\ \A k \in 1..Len(call.parentResults) :
                       \E n \in ChildStatementsRun :
                         executed[n] = Statement(t, "union", <<call.parentResults[k]>>,
                                                 template.limit, template.skip)
                  /\ Cardinality({n \in ChildStatementsRun : executed[n].template = t})
                       = Len(call.parentResults)
                  /\ template.limit # NoLimit
                       => \A k \in 1..Len(call.parentResults) :
                            Cardinality(FetchedFor(t, call.parentResults[k]))
                              <= template.limit

\* ---------------------------------------------------------- statement text
\* The text of a statement is a sequence of tokens: the fixed SQL the code
\* writes, column names, `?` placeholders, and whatever the code splices in
\* from a value.  A value is its JavaScript type and the characters
\* String(value) gives.
Str(chars) == [type |-> "string", chars |-> chars]
Generated == [type |-> "number", chars |-> <<"rowid">>]

CriteriaValues ==
  {Str(<<"a">>), Str(<<"o", "'", "k">>),
   [type |-> "number", chars |-> <<"7">>],
   [type |-> "boolean", chars |-> <<"true">>],
   [type |-> "null", chars |-> <<>>]}

Sql(text) == [kind |-> "sql", chars |-> <<text>>]
Column(name) == [kind |-> "column", chars |-> <<name>>]
Placeholder == [kind |-> "placeholder", chars |-> <<"?">>]
Interpolated(chars) == [kind |-> "value", chars |-> chars]
Limit(chars) == [kind |-> "limit", chars |-> chars]

\* clauses.join(separator)
RECURSIVE JoinText(_, _)
JoinText(clauses, separator) ==
  IF clauses = <<>> THEN <<>>
  ELSE IF Len(clauses) = 1 THEN Head(clauses)
  ELSE Head(clauses) \o <<separator>> \o JoinText(Tail(clauses), separator)

\* value.replace(/'/g, "''")
RECURSIVE doubleQuotes(_)
doubleQuotes(chars) ==
  IF chars = <<>> THEN <<>>
  ELSE (IF Head(chars) = "'" THEN <<"'", "'">> ELSE <<Head(chars)>>)
         \o doubleQuotes(Tail(chars))

sqliteEscape(value) ==
  IF value.type = "string" THEN <<"'">> \o doubleQuotes(value.chars) \o <<"'">>
  ELSE IF value.type = "boolean"
    THEN (IF value.chars = <<"true">> THEN <<"1.0">> ELSE <<"0.0">>)
  ELSE IF value.type = "null" THEN <<"NULL">>
  ELSE value.chars

\* the `like` pattern: every % becomes .* and nothing is escaped
RECURSIVE likePattern(_)
likePattern(chars) ==
  IF chars = <<>> THEN <<>>
  ELSE (IF Head(chars) = "%" THEN <<".*">> ELSE <<Head(chars)>>)
         \o likePattern(Tail(chars))

RECURSIVE escapeEach(_)
escapeEach(modifier) ==
  IF modifier = <<>> THEN <<>>
  ELSE <<<<Interpolated(sqliteEscape(Head(modifier)))>>>> \o escapeEach(Tail(modifier))

\* a constraint of a stage 3 `where`: a column, a modifier and its value(s)
Leaf(column, modifier, values) ==
  [kind |-> "leaf", column |-> column, modifier |-> modifier, values |-> values,
   sub |-> <<>>]
Group(kind, sub) ==
  [kind |-> kind, column |-> "", modifier |-> "", values |-> <<>>, sub |-> sub]

buildConstraint(constraint) ==
  IF constraint.modifier \in {"in", "nin"}
    THEN <<Column(constraint.column),
           Sql(IF constraint.modifier = "in" THEN " IN (" ELSE " NOT IN (")>>
           \o JoinText(escapeEach(constraint.values), Sql(", ")) \o <<Sql(")")>>
  ELSE IF constraint.modifier = "like"
    THEN <<Column(constraint.column), Sql(" REGEXP "),
           Interpolated(<<"'", "^">> \o likePattern(constraint.values[1].chars)
                          \o <<"$", "'">>)>>
  ELSE <<Column(constraint.column), Sql(" " \o constraint.modifier \o " "),
         Interpolated(sqliteEscape(constraint.values[1]))>>

\* a branch is the list of the entries of a `where` object
RECURSIVE recurse(_)
recurse(branch) ==
  LET clause(entry) ==
        IF entry.kind = "leaf" THEN buildConstraint(entry)
        ELSE <<Sql("(")>>
               \o JoinText([j \in 1..Len(entry.sub) |-> recurse(entry.sub[j])],
                           Sql(IF entry.kind = "and" THEN " AND " ELSE " OR "))
               \o <<Sql(")")>>
  IN  JoinText([i \in 1..Len(branch) |-> clause(branch[i])], Sql(" AND "))

buildSqliteWhereClause(whereClause) ==
  IF whereClause = <<>> THEN <<>> ELSE recurse(whereClause)

\* the default case of buildConstraint's switch: a modifier it does not
\* know throws ("=" stands for a constraint that is not an object)
InvalidModifier == Raw(JsError("Consistency violation: where clause modifier is not valid"))

RECURSIVE constraintThrows(_)
constraintThrows(branch) ==
  \E i \in 1..Len(branch) :
    IF branch[i].kind = "leaf"
      THEN branch[i].modifier \notin {"=", "<", "<=", ">", ">=", "!=", "nin", "in", "like"}
    ELSE \E j \in 1..Len(branch[i].sub) : constraintThrows(branch[i].sub[j])

Prepared(sql, bindings) == [sql |-> sql, bindings |-> bindings]

WhereText(whereClause) ==
  IF whereClause = <<>> THEN <<>> ELSE <<Sql(" WHERE ")>> \o whereClause

RECURSIVE Placeholders(_)
Placeholders(n) ==
  IF n = 0 THEN <<>>
  ELSE IF n = 1 THEN <<Placeholder>>
  ELSE <<Placeholder, Sql(", ")>> \o Placeholders(n - 1)

RECURSIVE ColumnList(_)
ColumnList(entries) ==
  IF entries = <<>> THEN <<>>
  ELSE IF Len(entries) = 1 THEN <<Column(Head(entries).column)>>
  ELSE <<Column(Head(entries).column), Sql(", ")>> \o ColumnList(Tail(entries))

RECURSIVE SetClauses(_)
SetClauses(entries) ==
  IF entries = <<>> THEN <<>>
  ELSE IF Len(entries) = 1 THEN <<Column(Head(entries).column), Sql(" = "), Placeholder>>
  ELSE <<Column(Head(entries).column), Sql(" = "), Placeholder, Sql(", ")>>
         \o SetClauses(Tail(entries))

ValuesOf(entries) == [i \in 1..Len(entries) |-> entries[i].value]

\* the statements each adapter method prepares, with the bindings it runs
\* them with
findSql(where, limit) ==
  <<Prepared(<<Sql("SELECT * FROM users")>>
               \o WhereText(buildSqliteWhereClause(where))
               \o <<Sql(" LIMIT "), Limit(limit.chars)>>, <<>>)>>

countSql(where) ==
  <<Prepared(<<Sql("SELECT COUNT(*) as count FROM users")>>
               \o WhereText(buildSqliteWhereClause(where)), <<>>)>>

sumSql(where) ==
  <<Prepared(<<Sql("SELECT COALESCE(SUM(age), 0) as total FROM users")>>
               \o WhereText(buildSqliteWhereClause(where)), <<>>)>>

avgSql(where) ==
  <<Prepared(<<Sql("SELECT COALESCE(AVG(age), 0) as average FROM users")>>
               \o WhereText(buildSqliteWhereClause(where)), <<>>)>>

destroySql(where, fetch) ==
  LET sqliteWhere == buildSqliteWhereClause(where)
  IN  (IF fetch
         THEN <<Prepared(<<Sql("SELECT * FROM users WHERE ")>> \o sqliteWhere, <<>>)>>
         ELSE <<>>)
        \o <<Prepared(<<Sql("DELETE FROM users WHERE ")>> \o sqliteWhere, <<>>)>>

updateSql(where, valuesToSet, fetch, affectedIds) ==
  LET sqliteWhere == buildSqliteWhereClause(where)
  IN  <<Prepared(<<Sql("BEGIN TRANSACTION")>>, <<>>)>>
        \o (IF fetch
         THEN <<Prepared(<<Sql("SELECT id FROM users WHERE ")>> \o sqliteWhere, <<>>)>>
         ELSE <<>>)
        \o <<Prepared(<<Sql("UPDATE users SET ")>> \o SetClauses(valuesToSet)
                        \o <<Sql(" WHERE ")>> \o sqliteWhere,
                      ValuesOf(valuesToSet))>>
        \o (IF fetch
              THEN <<Prepared(<<Sql("SELECT * FROM users WHERE id IN (")>>
                                \o Placeholders(Len(affectedIds)) \o <<Sql(")")>>,
                              affectedIds)>>
              ELSE <<>>)
        \o <<Prepared(<<Sql("COMMIT")>>, <<>>)>>

\* reifyValuesToSet on a record given as its entries: a primary key that is
\* there and is neither a number nor a string throws
invalidPrimaryKey(entries) ==
  \E i \in 1..Len(entries) :
    /\ entries[i].column = "id"
    /\ entries[i].value.type \notin {"number", "string", "null"}

\* createEach: the records must have the columns of the first one
sameColumns(newRecords) ==
  \A k \in 1..Len(newRecords) :
    /\ Len(newRecords[k]) = Len(newRecords[1])
    /\ \A i \in 1..Len(newRecords[k]) :
         \E j \in 1..Len(newRecords[1]) : newRecords[k][i].column = newRecords[1][j].column

DifferentColumns ==
  processNativeError(JsError("All records must have the same columns for batch insert"))

\* record[col] for the columns of the first record, record after record
RECURSIVE allValues(_, _)
allValues(newRecords, columnNames) ==
  IF newRecords = <<>> THEN <<>>
  ELSE [j \in 1..Len(columnNames) |->
          (CHOOSE en \in {Head(newRecords)[i] : i \in 1..Len(Head(newRecords))} :
             en.column = columnNames[j].column).value]
         \o allValues(Tail(newRecords), columnNames)

RECURSIVE ValueClauses(_, _)
ValueClauses(n, width) ==
  IF n = 0 THEN <<>>
  ELSE <<Sql("(")>> \o Placeholders(width) \o <<Sql(")")>>
         \o (IF n = 1 THEN <<>> ELSE <<Sql(", ")>>)
         \o ValueClauses(n - 1, width)

createEachSql(newRecords, fetch) ==
  <<Prepared(<<Sql("INSERT INTO users (")>> \o ColumnList(newRecords[1])
               \o <<Sql(") VALUES ")>>
               \o ValueClauses(Len(newRecords), Len(newRecords[1])),
             allValues(newRecords, newRecords[1]))>>
    \o (IF fetch
          THEN <<Prepared(<<Sql("SELECT * FROM users WHERE rowid >= "), Placeholder,
                            Sql(" AND rowid <= "), Placeholder, Sql(" ORDER BY rowid")>>,
                          <<Generated, Generated>>)>>
          ELSE <<>>)

createSql(newRecord, fetch) ==
  <<Prepared(<<Sql("INSERT INTO users (")>> \o ColumnList(newRecord)
               \o <<Sql(") VALUES (")>> \o Placeholders(Len(newRecord)) \o <<Sql(")")>>,
             ValuesOf(newRecord))>>
    \o (IF fetch
          THEN <<Prepared(<<Sql("SELECT * FROM users WHERE rowid = "), Placeholder>>,
                          <<Generated>>)>>
          ELSE <<>>)

\* the inputs: `where` objects up to one and/or group deep, records of one
\* or two columns
Constraints ==
  {Leaf("email", "=", <<v>>) : v \in CriteriaValues}
    \cup {Leaf("age", "<", <<v>>) : v \in {w \in CriteriaValues : w.type = "number"}}
    \cup {Leaf("email", "in", <<v, w>>) :
            v, w \in {x \in CriteriaValues : x.type = "string"}}
    \cup {Leaf("email", "like", <<Str(<<"%", "a">>)>>)}
    \cup {Leaf("email", "in", <<>>), Leaf("email", "nin", <<>>)}
    \cup {Leaf("email", "regex", <<Str(<<"a">>)>>)}
Groups ==
  {Group(kind, <<<<c>>, <<d>>>>) : kind \in {"and", "or"}, c \in Constraints,
                                  d \in {Leaf("age", "<", <<[type |-> "number", chars |-> <<"7">>]>>)}}
WhereTrees == {<<>>} \cup {<<c>> : c \in Constraints \cup Groups}
RecordEntries ==
  {<<[column |-> "email", value |-> v]>> : v \in CriteriaValues}
    \cup {<<[column |-> "email", value |-> v],
            [column |-> "age", value |-> [type |-> "number", chars |-> <<"7">>]]>> :
            v \in CriteriaValues}
    \cup {<<[column |-> "id", value |-> pk], [column |-> "email", value |-> Str(<<"a">>)]>> :
            pk \in {[type |-> "number", chars |-> <<"7">>], [type |-> "object", chars |-> <<>>]}}

BatchEntries ==
  {<<r>> : r \in RecordEntries} \cup {<<r, q>> : r, q \in RecordEntries}

Done(op) == [op |-> op, exit |-> "success", err |-> NoError, result |-> <<>>]
Thrown(op, err) == [op |-> op, exit |-> "error", err |-> err, result |-> <<>>]

PrepareRead ==
  /\ last.op = "none"
  /\ \E where \in WhereTrees, op \in {"find", "count", "sum", "avg"} :
       \E statements \in {IF constraintThrows(where) THEN <<>>
                          ELSE IF op = "find"
                            THEN findSql(where, [type |-> "number", chars |-> <<"7">>])
                          ELSE IF op = "count" THEN countSql(where)
                          ELSE IF op = "sum" THEN sumSql(where)
                          ELSE avgSql(where)} :
         /\ last' = IF constraintThrows(where) THEN Thrown(op, InvalidModifier) ELSE Done(op)
         /\ call' = [where |-> where, values |-> <<>>]
         /\ executed' = statements
  /\ UNCHANGED <<db, inTransaction, journal, pending, txBase, txCreated, schema, registeredDsEntries, registeredDryModels>>

PrepareDestroy ==
  /\ last.op = "none"
  /\ \E where \in WhereTrees, fetch \in BOOLEAN :
       \E statements \in {IF constraintThrows(where) THEN <<>>
                          ELSE destroySql(where, fetch)} :
         /\ last' = IF constraintThrows(where) THEN Thrown("destroy", InvalidModifier)
                    ELSE Done("destroy")
         /\ call' = [where |-> where, values |-> <<>>]
         /\ executed' = statements
  /\ UNCHANGED <<db, inTransaction, journal, pending, txBase, txCreated, schema, registeredDsEntries, registeredDryModels>>

PrepareUpdate ==
  /\ last.op = "none"
  /\ \E where \in WhereTrees, valuesToSet \in RecordEntries, fetch \in BOOLEAN,
        affectedIds \in {<<>>, <<Generated>>} :
       \E statements \in {IF invalidPrimaryKey(valuesToSet) \/ constraintThrows(where) THEN <<>>
                          ELSE updateSql(where, valuesToSet, fetch, affectedIds)} :
         /\ last' = IF invalidPrimaryKey(valuesToSet) THEN Thrown("update", Raw(InvalidPk))
                    ELSE IF constraintThrows(where) THEN Thrown("update", InvalidModifier)
                    ELSE Done("update")
         /\ call' = [where |-> where, values |-> ValuesOf(valuesToSet),
                     records |-> <<valuesToSet>>]
         /\ executed' = statements
  /\ UNCHANGED <<db, inTransaction, journal, pending, txBase, txCreated, schema, registeredDsEntries, registeredDryModels>>

PrepareCreate ==
  /\ last.op = "none"
  /\ \E newRecord \in RecordEntries, fetch \in BOOLEAN :
       \E statements \in {IF invalidPrimaryKey(newRecord) THEN <<>>
                          ELSE createSql(newRecord, fetch)} :
         /\ last' = IF invalidPrimaryKey(newRecord) THEN Thrown("create", Raw(InvalidPk))
                    ELSE Done("create")
         /\ call' = [where |-> <<>>, values |-> ValuesOf(newRecord),
                     records |-> <<newRecord>>]
         /\ executed' = statements
  /\ UNCHANGED <<db, inTransaction, journal, pending, txBase, txCreated, schema, registeredDsEntries, registeredDryModels>>

PrepareCreateEach ==
  /\ last.op = "none"
  /\ \E newRecords \in BatchEntries, fetch \in BOOLEAN :
       \E thrown \in {IF \E k \in 1..Len(newRecords) : invalidPrimaryKey(newRecords[k])
                         THEN Raw(InvalidPk)
                       ELSE IF ~sameColumns(newRecords) THEN DifferentColumns
                       ELSE NoError} :
         /\ last' = IF thrown # NoError THEN Thrown("createEach", thrown)
                    ELSE Done("createEach")
         /\ call' = [where |-> <<>>,
                     values |-> IF thrown # NoError THEN <<>>
                                ELSE allValues(newRecords, newRecords[1]),
                     records |-> newRecords]
         /\ executed' = IF thrown # NoError THEN <<>> ELSE createEachSql(newRecords, fetch)
  /\ UNCHANGED <<db, inTransaction, journal, pending, txBase, txCreated, schema, registeredDsEntries, registeredDryModels>>

\* compileStatement, which the join uses for the parent and child statements.
\* A `where` object has an `and` list, an `or` list and field conditions.
WhereObj(and, or, fields) == [and |-> and, or |-> or, fields |-> fields]

\* the value bound for an operator's placeholder
boundValue(operator, operatorValue) ==
  IF operator = "contains" THEN Str(<<"%">> \o operatorValue.chars \o <<"%">>)
  ELSE IF operator = "startsWith" THEN Str(operatorValue.chars \o <<"%">>)
  ELSE IF operator = "endsWith" THEN Str(<<"%">> \o operatorValue.chars)
  ELSE operatorValue

listBindings_firstOnly(operatorValue) == SubSeq(operatorValue, 1, 1)

\* bindings.push(...operatorValue)
listBindings(operatorValue) == operatorValue

\* the condition and the bindings one field of a `where` object adds
fieldCondition(field) ==
  LET columnName == Column(field.column)
      operator == field.modifier
  IN  IF operator \in {"in", "nin"}
        THEN IF field.values = <<>> THEN [conditions |-> <<>>, bindings |-> <<>>]
             ELSE [conditions |->
                     <<<<columnName, Sql(IF operator = "in" THEN " IN (" ELSE " NOT IN (")>>
                         \o Placeholders(Len(field.values)) \o <<Sql(")")>>>>,
                   bindings |-> listBindings(field.values)]
      ELSE [conditions |->
              <<<<columnName,
                  Sql(IF operator \in {">", ">=", "<", "<="} THEN " " \o operator \o " "
                      ELSE IF operator \in {"!=", "ne"} THEN " != "
                      ELSE IF operator \in {"like", "contains", "startsWith", "endsWith"}
                        THEN " LIKE "
                      ELSE " = "),
                  Placeholder>>>>,
            bindings |-> <<boundValue(operator, field.values[1])>>]

RECURSIVE ClausesOf(_)
ClausesOf(results) ==
  IF results = <<>> THEN <<>>
  ELSE IF Head(results).clause = <<>> THEN ClausesOf(Tail(results))
  ELSE <<Head(results).clause>> \o ClausesOf(Tail(results))

RECURSIVE BindingsOf(_)
BindingsOf(results) ==
  IF results = <<>> THEN <<>>
  ELSE IF Head(results).clause = <<>> THEN BindingsOf(Tail(results))
  ELSE Head(results).bindings \o BindingsOf(Tail(results))

RECURSIVE FieldConditions(_)
FieldConditions(fields) ==
  IF fields = <<>> THEN [conditions |-> <<>>, bindings |-> <<>>]
  ELSE LET one == fieldCondition(Head(fields))
           rest == FieldConditions(Tail(fields))
       IN  [conditions |-> one.conditions \o rest.conditions,
            bindings |-> one.bindings \o rest.bindings]

Parenthesized(clauses, separator) ==
  IF clauses = <<>> THEN <<>>
  ELSE <<<<Sql("(")>> \o JoinText(clauses, separator) \o <<Sql(")")>>>>

RECURSIVE buildWhereClause(_)
buildWhereClause(whereObj) ==
  LET andResults == [i \in 1..Len(whereObj.and) |-> buildWhereClause(whereObj.and[i])]
      orResults == [i \in 1..Len(whereObj.or) |-> buildWhereClause(whereObj.or[i])]
      fields == FieldConditions(whereObj.fields)
      conditions == Parenthesized(ClausesOf(andResults), Sql(" AND "))
                      \o Parenthesized(ClausesOf(orResults), Sql(" OR "))
                      \o fields.conditions
  IN  [clause |-> JoinText(conditions, Sql(" AND ")),
       bindings |-> BindingsOf(andResults) \o BindingsOf(orResults) \o fields.bindings]

Select(where, limit, skip) ==
  [unionAll |-> <<>>, where |-> where, limit |-> limit, skip |-> skip]
Union(unionAll) ==
  [unionAll |-> unionAll, where |-> WhereObj(<<>>, <<>>, <<>>), limit |-> NoLimit,
   skip |-> NoSkip]

compileSelect(statement) ==
  LET whereResult == buildWhereClause(statement.where)
  IN  [sql |-> <<Sql("SELECT * FROM pets")>>
                 \o (IF whereResult.clause # <<>>
                       THEN <<Sql(" WHERE ")>> \o whereResult.clause ELSE <<>>)
                 \o (IF statement.limit # NoLimit
                       THEN <<Sql(" LIMIT "), Limit(<<ToString(statement.limit)>>)>>
                       ELSE <<>>)
                 \o (IF statement.skip # NoSkip
                       THEN <<Sql(" OFFSET "), Limit(<<ToString(statement.skip)>>)>>
                       ELSE <<>>),
       bindings |-> IF whereResult.clause # <<>> THEN whereResult.bindings ELSE <<>>]

RECURSIVE compileUnion(_)
compileUnion(unionAll) ==
  IF unionAll = <<>> THEN [sql |-> <<>>, bindings |-> <<>>]
  ELSE LET compiledUnion ==
             compileSelect(Select(Head(unionAll).where, NoLimit, NoSkip))
           rest == compileUnion(Tail(unionAll))
       IN  [sql |-> IF Tail(unionAll) = <<>> THEN compiledUnion.sql
                    ELSE compiledUnion.sql \o <<Sql(" UNION ALL ")>> \o rest.sql,
            bindings |-> compiledUnion.bindings \o rest.bindings]

compileStatement(statement) ==
  IF statement.unionAll # <<>> THEN compileUnion(statement.unionAll)
  ELSE compileSelect(statement)

\* the statements compiled: predicate trees with a group nested in a group,
\* every field on a column of its own
FieldInputs(column) ==
  {Leaf(column, "eq", <<Str(<<"a">>)>>),
   Leaf(column, "contains", <<Str(<<"o", "'", "k">>)>>),
   Leaf(column, ">", <<[type |-> "number", chars |-> <<"7">>]>>),
   Leaf(column, "in", <<>>),
   Leaf(column, "in", <<Str(<<"a">>)>>),
   Leaf(column, "nin", <<Str(<<"o", "'", "k">>), Str(<<"a">>)>>),
   Leaf(column, "regex", <<Str(<<"a">>)>>)}
OneField(column) == {WhereObj(<<>>, <<>>, <<f>>) : f \in FieldInputs(column)}
Optional(S) == {<<>>} \cup {<<x>> : x \in S}
NestedInputs == {WhereObj(<<>>, <<x, y>>, <<>>) : x \in OneField("c1"), y \in OneField("c2")}
WhereObjInputs ==
  {WhereObj(and, or, fields) :
     and \in Optional(NestedInputs), or \in Optional(OneField("c3")),
     fields \in Optional(FieldInputs("c4"))}
MemberInputs(column) ==
  {Select(where, pg.limit, pg.skip) :
     where \in OneField(column) \cup {WhereObj(<<x>>, <<>>, <<>>) : x \in OneField(column)},
     pg \in {[limit |-> NoLimit, skip |-> NoSkip], [limit |-> MaxLimit, skip |-> NoSkip]}}
StatementInputs ==
  {Select(where, pg.limit, pg.skip) : where \in WhereObjInputs, pg \in Pagination}
    \cup {Union(<<m>>) : m \in MemberInputs("u1")}
    \cup {Union(<<m, n>>) : m \in MemberInputs("u1"), n \in MemberInputs("u2")}

CompileStatement ==
  /\ last.op = "none"
  /\ \E statement \in StatementInputs :
       \E compiled \in {compileStatement(statement)} :
         /\ last' = Done("compileStatement")
         /\ call' = [statement |-> statement]
         /\ executed' = <<Prepared(compiled.sql, compiled.bindings)>>
  /\ UNCHANGED <<db, inTransaction, journal, pending, txBase, txCreated, schema, registeredDsEntries, registeredDryModels>>

NextStatements ==
  \/ PrepareRead
  \/ PrepareDestroy
  \/ PrepareUpdate
  \/ PrepareCreate
  \/ PrepareCreateEach
  \/ CompileStatement

SpecStatements == Init /\ [][NextStatements]_vars

SplicedValues(sql) == {i \in 1..Len(sql) : sql[i].kind = "value"}
Bound(statements) ==
  UNION {{statements[k].bindings[i] : i \in 1..Len(statements[k].bindings)} :
           k \in 1..Len(statements)}

\* C14: no statement the adapter prepares for find, count, sum, avg, update,
\* destroy or create has a criteria value or a record value spliced into its
\* text, and the record values are all among the bindings.
C14_ValuesOnlyInBindings ==
  (last.op \in {"find", "count", "sum", "avg", "update", "destroy", "create"})
    => /\ \A k \in 1..Len(executed) : SplicedValues(executed[k].sql) = {}
       /\ \A i \in 1..Len(call.values) : call.values[i] \in Bound(executed)

\* the fields of a `where` object, and of a statement
RECURSIVE FieldsOf(_)
FieldsOf(whereObj) ==
  {whereObj.fields[i] : i \in 1..Len(whereObj.fields)}
    \cup UNION {FieldsOf(whereObj.and[i]) : i \in 1..Len(whereObj.and)}
    \cup UNION {FieldsOf(whereObj.or[i]) : i \in 1..Len(whereObj.or)}
FieldsOfStatement(statement) ==
  IF statement.unionAll # <<>>
    THEN UNION {FieldsOf(statement.unionAll[i].where) : i \in 1..Len(statement.unionAll)}
  ELSE FieldsOf(statement.where)

PlaceholdersIn(sql) == {i \in 1..Len(sql) : sql[i].kind = "placeholder"}
\* the column token a placeholder follows, and the placeholder's place in
\* that column's list
ColumnBefore(sql, i) ==
  CHOOSE j \in 1..i : /\ sql[j].kind = "column"
                      /\ \A m \in (j + 1)..i : sql[m].kind # "column"
PlaceInList(sql, i) ==
  Cardinality({m \in ColumnBefore(sql, i)..i : sql[m].kind = "placeholder"})
\* the value the statement's predicate tree gives the placeholder at i
ValueOfPlaceholder(statement, sql, i) ==
  LET field == CHOOSE f \in FieldsOfStatement(statement) :
                 Column(f.column) = sql[ColumnBefore(sql, i)]
  IN  boundValue(field.modifier, field.values[PlaceInList(sql, i)])

\* C15: the statement compiled from a predicate tree has as many bindings
\* as its text has `?` placeholders, and the k-th binding is the value the
\* tree gives the k-th placeholder of the text.
C15_BindingsMatchPlaceholders ==
  (last.op = "compileStatement")
    => LET sql == executed[1].sql
           bindings == executed[1].bindings
           places == Ascending(PlaceholdersIn(sql))
       IN  /\ Len(bindings) = Len(places)
           /\ \A k \in 1..Len(places) :
                k <= Len(bindings)
                  => bindings[k] = ValueOfPlaceholder(call.statement, sql, places[k])

C15_NestedGroupsAndLists ==
  /\ last.op = "compileStatement"
  /\ call.statement.unionAll = <<>>
  /\ call.statement.where.and # <<>>
  /\ call.statement.where.or # <<>>
  /\ call.statement.where.fields # <<>>
  /\ \E f \in FieldsOfStatement(call.statement) : f.modifier = "nin"
  /\ \E f \in FieldsOfStatement(call.statement) : f.modifier = "contains"
  /\ Len(executed[1].bindings) > Cardinality(FieldsOfStatement(call.statement))

\* ------------------------------------------------------------- marshalers
\* JavaScript values as the marshalers see them: a type, the characters of a
\* scalar, the items of an array or the members of an object.
JsNull == [type |-> "null", chars |-> <<>>, items |-> <<>>]
JsBoolean(b) ==
  [type |-> "boolean", chars |-> IF b THEN <<"true">> ELSE <<"false">>, items |-> <<>>]
JsNumber(chars) == [type |-> "number", chars |-> chars, items |-> <<>>]
JsString(chars) == [type |-> "string", chars |-> chars, items |-> <<>>]
JsArray(items) == [type |-> "array", chars |-> <<>>, items |-> items]
JsObject(members) == [type |-> "object", chars |-> <<>>, items |-> members]

\* value ? ... : ...
Truthy(value) ==
  IF value.type = "null" THEN FALSE
  ELSE IF value.type = "boolean" THEN value.chars = <<"true">>
  ELSE IF value.type = "number" THEN value.chars # <<"0">>
  ELSE IF value.type = "string" THEN value.chars # <<>>
  ELSE TRUE

\* JSON.stringify
RECURSIVE quote(_)
quote(chars) ==
  IF chars = <<>> THEN <<>>
  ELSE (IF Head(chars) \in {"\"", "\\"} THEN <<"\\", Head(chars)>> ELSE <<Head(chars)>>)
         \o quote(Tail(chars))

RECURSIVE stringify(_)
stringify(value) ==
  LET RECURSIVE items(_)
      items(list) ==
        IF list = <<>> THEN <<>>
        ELSE stringify(Head(list))
               \o (IF Tail(list) = <<>> THEN <<>> ELSE <<",">>) \o items(Tail(list))
      RECURSIVE members(_)
      members(list) ==
        IF list = <<>> THEN <<>>
        ELSE <<"\"">> \o quote(Head(list).key) \o <<"\"", ":">>
               \o stringify(Head(list).value)
               \o (IF Tail(list) = <<>> THEN <<>> ELSE <<",">>) \o members(Tail(list))
  IN  IF value.type = "null" THEN <<"null">>
      ELSE IF value.type \in {"boolean", "number"} THEN value.chars
      ELSE IF value.type = "string" THEN <<"\"">> \o quote(value.chars) \o <<"\"">>
      ELSE IF value.type = "array" THEN <<"[">> \o items(value.items) \o <<"]">>
      ELSE <<"{">> \o members(value.items) \o <<"}">>

\* JSON.parse: each function reads one construct from position i and tells
\* where the next one starts
NumberChars == {"-", ".", "0", "1", "2", "3", "4", "7"}

RECURSIVE parseString(_, _, _)
parseString(text, i, acc) ==
  IF text[i] = "\"" THEN [value |-> JsString(acc), next |-> i + 1]
  ELSE IF text[i] = "\\" THEN parseString(text, i + 2, Append(acc, text[i + 1]))
  ELSE parseString(text, i + 1, Append(acc, text[i]))

RECURSIVE parseNumber(_, _, _)
parseNumber(text, i, acc) ==
  IF i <= Len(text) /\ text[i] \in NumberChars
    THEN parseNumber(text, i + 1, Append(acc, text[i]))
  ELSE [value |-> JsNumber(acc), next |-> i]

RECURSIVE parseValue(_, _)
RECURSIVE parseItems(_, _, _)
RECURSIVE parseMembers(_, _, _)
parseValue(text, i) ==
  IF text[i] = "\"" THEN parseString(text, i + 1, <<>>)
  ELSE IF text[i] = "[" THEN parseItems(text, i + 1, <<>>)
  ELSE IF text[i] = "{" THEN parseMembers(text, i + 1, <<>>)
  ELSE IF text[i] = "null" THEN [value |-> JsNull, next |-> i + 1]
  ELSE IF text[i] \in {"true", "false"}
    THEN [value |-> JsBoolean(text[i] = "true"), next |-> i + 1]
  ELSE parseNumber(text, i, <<>>)

parseItems(text, i, acc) ==
  IF text[i] = "]" THEN [value |-> JsArray(acc), next |-> i + 1]
  ELSE LET item == parseValue(text, IF text[i] = "," THEN i + 1 ELSE i)
       IN  parseItems(text, item.next, Append(acc, item.value))

parseMembers(text, i, acc) ==
  IF text[i] = "}" THEN [value |-> JsObject(acc), next |-> i + 1]
  ELSE LET key == parseString(text, (IF text[i] = "," THEN i + 1 ELSE i) + 1, <<>>)
           member == parseValue(text, key.next + 1)
       IN  parseMembers(text, member.next,
                        Append(acc, [key |-> key.value.chars, value |-> member.value]))

parse(text) == parseValue(text, 1).value

\* the write-side marshaler on one attribute's value
reifyValuesToSet(attrDef, value) ==
  LET json == IF attrDef.type = "json" /\ value.type # "null"
                THEN JsString(stringify(value)) ELSE value
  IN  IF attrDef.type = "boolean"
        THEN JsNumber(IF Truthy(json) THEN <<"1">> ELSE <<"0">>)
      ELSE json

\* the column type definePhysicalModel declares; define passes the
\* attribute's columnType only
getSqliteType(columnType) ==
  IF columnType \in {"_string", "_text", "_mediumtext", "_longtext"} THEN "TEXT"
  ELSE IF columnType \in {"_number", "_numberkey", "_numbertimestamp", "integer", "int"}
    THEN "INTEGER"
  ELSE IF columnType = "_json" THEN "TEXT"
  ELSE IF columnType \in {"float", "double", "real"} THEN "REAL"
  ELSE IF columnType = "boolean" THEN "INTEGER"
  ELSE IF columnType \in {"date", "datetime"} THEN "TEXT"
  ELSE IF columnType \in {"binary", "blob"} THEN "BLOB"
  ELSE "TEXT"

\* what SQLite stores for a bound value in a column of that declared type:
\* a TEXT column turns a number into its text, a numeric column turns text
\* that reads as a number into that number
LooksNumeric(chars) ==
  /\ chars # <<>>
  /\ \A i \in 1..Len(chars) : chars[i] \in NumberChars
  /\ \E i \in 1..Len(chars) : chars[i] \notin {"-", "."}

stored(sqliteType, bound) ==
  IF bound.type = "null" THEN [class |-> "NULL", chars |-> <<>>]
  ELSE IF sqliteType = "TEXT" THEN [class |-> "TEXT", chars |-> bound.chars]
  ELSE IF bound.type = "number" THEN [class |-> "NUMERIC", chars |-> bound.chars]
  ELSE IF sqliteType \in {"INTEGER", "REAL"} /\ LooksNumeric(bound.chars)
    THEN [class |-> "NUMERIC", chars |-> bound.chars]
  ELSE [class |-> "TEXT", chars |-> bound.chars]

\* the value the driver returns for a stored one
column(cell) ==
  IF cell.class = "NULL" THEN JsNull
  ELSE IF cell.class = "NUMERIC" THEN JsNumber(cell.chars)
  ELSE JsString(cell.chars)

\* the read-side marshaler on one attribute's value
processNativeRecord(attrDef, value) ==
  LET json == IF attrDef.type = "json" /\ value.type = "string"
                THEN parse(value.chars) ELSE value
  IN  IF attrDef.type = "boolean" THEN JsBoolean(Truthy(json)) ELSE json

\* the attributes of the model, with the column types an attribute of that
\* type is defined with ("" when the definition gives none)
Attributes == {"boolean_field", "json_field", "number_field"}
AttrType(attr) ==
  IF attr = "boolean_field" THEN "boolean"
  ELSE IF attr = "json_field" THEN "json" ELSE "number"
ColumnTypes(attr) ==
  IF attr = "boolean_field" THEN {"", "_boolean", "boolean"}
  ELSE IF attr = "json_field" THEN {"", "_json"}
  ELSE {"", "_number", "float"}
AttrValues(attr) ==
  IF attr = "boolean_field" THEN {JsBoolean(TRUE), JsBoolean(FALSE)}
  ELSE IF attr = "json_field"
    THEN {JsNull, JsString(<<"s", "\"", "\\">>), JsString(<<"4", "2">>),
          JsArray(<<>>), JsArray(<<JsNumber(<<"1">>), JsString(<<",">>)>>),
          JsObject(<<[key |-> <<"k">>, value |-> JsArray(<<JsNull>>)]>>)}
  ELSE {JsNumber(<<"0">>), JsNumber(<<"4", "2">>), JsNumber(<<"3", ".", "1", "4">>)}

AllColumnTypes == UNION {ColumnTypes(attr) : attr \in Attributes}
AllAttrValues == UNION {AttrValues(attr) : attr \in Attributes}
ModelInputs ==
  {model \in [Attributes -> AllColumnTypes] :
     \A attr \in Attributes : model[attr] \in ColumnTypes(attr)}
RecordInputs ==
  {record \in [Attributes -> AllAttrValues] :
     \A attr \in Attributes : record[attr] \in AttrValues(attr)}

\* create with fetch: the record through the write-side marshaler into the
\* table, the stored row through the driver and the read-side marshaler
CreateAndFetch ==
  /\ last.op = "none"
  /\ \E model \in ModelInputs, newRecord \in RecordInputs :
       \E row \in {[attr \in Attributes |->
                      stored(getSqliteType(model[attr]),
                             reifyValuesToSet([type |-> AttrType(attr)], newRecord[attr]))]} :
         /\ last' = [op |-> "createAndFetch", exit |-> "success", err |-> NoError,
                     result |-> <<[attr \in Attributes |->
                                     processNativeRecord([type |-> AttrType(attr)],
                                                         column(row[attr]))]>>]
         /\ call' = [newRecord |-> newRecord, model |-> model]
         /\ executed' = <<row>>
  /\ UNCHANGED <<db, inTransaction, journal, pending, txBase, txCreated, schema, registeredDsEntries, registeredDryModels>>

NextMarshal == CreateAndFetch

SpecMarshal == Init /\ [][NextMarshal]_vars

\* C16: a record written through the write-side marshaler and read back
\* through the read-side marshaler has, in every boolean, JSON and numeric
\* attribute, a value equal to the one written.
C16_RoundTripIsIdentity ==
  (last.op = "createAndFetch")
    => \A attr \in Attributes : last.result[1][attr] = call.newRecord[attr]

\* ------------------------------------------------ define, drop, setSequence
InitSchema ==
  /\ db = EmptyDb
  /\ inTransaction = FALSE
  /\ journal = NoJournal
  /\ last = NoLast
  /\ call = NoCall
  /\ pending = NoPending
  /\ executed = NoStatements
  /\ txBase = NoRows
  /\ txCreated = {}
  /\ schema = EmptyCatalog
  /\ registeredDsEntries = {}
  /\ registeredDryModels = NoModels

Define ==
  /\ \E tableName \in TableNames, autoIncrement \in BOOLEAN :
       \E out \in {definePhysicalModel(schema, tableName, autoIncrement)} :
         /\ schema' = out.catalog
         /\ last' = [op |-> "define", exit |-> out.exit, err |-> NoError, result |-> <<>>]
         /\ call' = [name |-> tableName, value |-> 0, before |-> schema]
  /\ UNCHANGED <<db, inTransaction, journal, pending, executed, txBase, txCreated,
               registeredDsEntries, registeredDryModels>>

InsertInto ==
  /\ \E tableName \in schema.tables :
       /\ schema.sequence[tableName] < MaxSequence
       /\ schema' = insertInto(schema, tableName)
       /\ last' = [op |-> "insert", exit |-> "success", err |-> NoError, result |-> <<>>]
       /\ call' = [name |-> tableName, value |-> 0, before |-> schema]
  /\ UNCHANGED <<db, inTransaction, journal, pending, executed, txBase, txCreated,
               registeredDsEntries, registeredDryModels>>

SetSequence ==
  /\ \E sequenceName \in SequenceNames, sequenceValue \in 1..MaxSequence :
       \E out \in {setSequence(schema, sequenceName, sequenceValue)} :
         /\ schema' = out.catalog
         /\ last' = [op |-> "setSequence", exit |-> out.exit, err |-> NoError,
                     result |-> <<>>]
         /\ call' = [name |-> sequenceName, value |-> sequenceValue, before |-> schema]
  /\ UNCHANGED <<db, inTransaction, journal, pending, executed, txBase, txCreated,
               registeredDsEntries, registeredDryModels>>

Drop ==
  /\ \E tableName \in TableNames :
       \E out \in {dropPhysicalModel(schema, tableName)} :
         /\ schema' = out.catalog
         /\ last' = [op |-> "drop", exit |-> out.exit, err |-> NoError, result |-> <<>>]
         /\ call' = [name |-> tableName, value |-> 0, before |-> schema]
  /\ UNCHANGED <<db, inTransaction, journal, pending, executed, txBase, txCreated,
               registeredDsEntries, registeredDryModels>>

NextSchema ==
  \/ Define
  \/ InsertInto
  \/ SetSequence
  \/ Drop

SpecSchema == InitSchema /\ [][NextSchema]_vars

\* C17: setSequence naming a table that does not exist reports no error and
\* leaves the tables and sqlite_sequence as they were.
C17_MissingTableIsNoOp ==
  (last.op = "setSequence" /\ call.name \notin call.before.tables)
    => /\ last.exit = "success"
       /\ schema = call.before

C17_MissingTableBesideSequences ==
  /\ last.op = "setSequence"
  /\ call.name \in TableNames
  /\ call.name \notin call.before.tables
  /\ call.before.sequenceTable
  /\ \E other \in call.before.tables : call.before.sequence[other] # NoEntry

\* C18: setSequence with the name <table>_<column>_seq resets the counter
\* of <table> exactly as setSequence with the name <table> does.
C18_SequenceNameResolvesToTable ==
  (last.op = "setSequence")
    => \A tableName \in TableNames, suffix \in SequenceSuffixes :
         call.name = tableName \o suffix
           => LET plain == setSequence(call.before, tableName, call.value)
              IN  /\ last.exit = plain.exit
                  /\ schema = plain.catalog

\* C19: drop succeeds whether or not the table exists and leaves the table
\* absent with no row of sqlite_sequence for it; a second drop succeeds too
\* and changes nothing.
C19_DropIsIdempotent ==
  (last.op = "drop")
    => /\ last.exit = "success"
       /\ call.name \notin schema.tables
       /\ schema.sequence[call.name] = NoEntry
       /\ dropPhysicalModel(schema, call.name) = [exit |-> "success", catalog |-> schema]

C19_DroppedTableWithSequence ==
  /\ last.op = "drop"
  /\ call.name \in call.before.autoIncrement
  /\ call.before.sequence[call.name] # NoEntry
  /\ schema.tables # {}

\* ------------------------------------------------- join: attaching children
\* A child row as detectChildrenRecords hands it over: n tells the rows
\* apart, fk is child[childKey], parent_fk is child._parent_fk (strategy 3).
ChildRow(n, key, strategy) ==
  [n |-> n, fk |-> IF strategy = 3 THEN UNSET ELSE key,
   parent_fk |-> IF strategy = 3 THEN key ELSE UNSET]

matches_byPosition(child, parentKey, strategy) == child.n = parentKey

\* the _.filter callback
matches(child, parentKey, strategy) ==
  IF strategy = 3 THEN child.parent_fk = parentKey ELSE child.fk = parentKey

\* the records of one parent; with strategy 3 _parent_fk is deleted from
\* them, in the list all parents share
attachToParent(children, parentKey, strategy) ==
  LET kept == SelectSeq(children, LAMBDA child : matches(child, parentKey, strategy))
      strip(child) == IF strategy = 3 /\ matches(child, parentKey, strategy)
                        THEN [child EXCEPT !.parent_fk = UNSET] ELSE child
  IN  [records |-> [k \in 1..Len(kept) |-> strip(kept[k])],
       children |-> [k \in 1..Len(children) |-> strip(children[k])]]

\* _.each(sortedResults.parents, ...)
RECURSIVE attachChildren(_, _, _)
attachChildren(parents, children, strategy) ==
  IF parents = <<>> THEN <<>>
  ELSE LET one == attachToParent(children, Head(parents), strategy)
       IN  <<[parent |-> Head(parents), records |-> one.records]>>
             \o attachChildren(Tail(parents), one.children, strategy)

\* parents in any order, child rows in any order, some of them of a parent
\* that is not among the results
Orders(S) ==
  {order \in [1..Cardinality(S) -> S] :
     \A i, j \in 1..Cardinality(S) : order[i] = order[j] => i = j}
ParentOrders == UNION {Orders(S) : S \in SUBSET ParentKeys \ {{}}}
ChildKeyInputs == UNION {[1..n -> 1..(MaxParents + 1)] : n \in 0..MaxChildren}

Attach ==
  /\ last.op = "none"
  /\ \E parents \in ParentOrders, keys \in ChildKeyInputs, strategy \in 1..3 :
       \E children \in {[k \in 1..Len(keys) |-> ChildRow(k, keys[k], strategy)]} :
         /\ last' = [op |-> "attach", exit |-> "success", err |-> NoError,
                     result |-> attachChildren(parents, children, strategy)]
         /\ call' = [parents |-> parents, keys |-> keys, strategy |-> strategy]
  /\ UNCHANGED <<db, inTransaction, journal, pending, executed, txBase, txCreated, schema, registeredDsEntries, registeredDryModels>>

NextAttach == Attach

SpecAttach == Init /\ [][NextAttach]_vars

EmptyList(leaf) == leaf.modifier \in {"in", "nin"} /\ leaf.values = <<>>
Names(sql, columnName) == {i \in 1..Len(sql) : sql[i] = Column(columnName)}

\* C22: a leaf with `in` or `nin` and an empty list is never left out of
\* the WHERE clause, by either compiler: the statement's text has a
\* condition on the leaf's column.
C22_EmptyListLeafIsCompiled ==
  /\ (last.op = "compileStatement")
       => \A leaf \in FieldsOfStatement(call.statement) :
            EmptyList(leaf) => Names(executed[1].sql, leaf.column) # {}
  /\ (last.op \in {"find", "count", "sum", "avg", "destroy"})
       => \A k \in 1..Len(call.where) :
            (call.where[k].kind = "leaf" /\ EmptyList(call.where[k]))
              => \A n \in 1..Len(executed) :
                   Names(executed[n].sql, call.where[k].column) # {}

\* an operator neither compiler supports
UnknownOperators == {"regex"}

RECURSIVE HasUnknown(_)
HasUnknown(branch) ==
  \E i \in 1..Len(branch) :
    \/ branch[i].kind = "leaf" /\ branch[i].modifier \in UnknownOperators
    \/ \E j \in 1..Len(branch[i].sub) : HasUnknown(branch[i].sub[j])

\* C23: a predicate leaf with an operator that is not supported ends the
\* call with a consistency-violation error in both compile paths, and no
\* statement is produced for it.
C23_UnknownOperatorIsFatal ==
  /\ (/\ last.op = "compileStatement"
      /\ \E leaf \in FieldsOfStatement(call.statement) : leaf.modifier \in UnknownOperators)
       => last.exit = "error" /\ executed = <<>>
  /\ (/\ last.op \in {"find", "count", "sum", "avg", "update", "destroy"}
      /\ HasUnknown(call.where)
      /\ last.op = "update" => ~invalidPrimaryKey(call.records[1]))
       => /\ last.exit = "error"
          /\ last.err = InvalidModifier
          /\ executed = <<>>

\* ------------------------------------------------- native errors, by kind
\* What the driver throws: for a constraint, the message names the constraint
\* that failed and the code is either the primary result code or the
\* extended one of that constraint.
ConstraintMessages ==
  [UNIQUE |-> "UNIQUE constraint failed", PRIMARYKEY |-> "UNIQUE constraint failed",
   NOTNULL |-> "NOT NULL constraint failed", CHECK |-> "CHECK constraint failed",
   FOREIGNKEY |-> "FOREIGN KEY constraint failed"]

ExtendedCode ==
  [UNIQUE |-> "SQLITE_CONSTRAINT_UNIQUE", PRIMARYKEY |-> "SQLITE_CONSTRAINT_PRIMARYKEY",
   NOTNULL |-> "SQLITE_CONSTRAINT_NOTNULL", CHECK |-> "SQLITE_CONSTRAINT_CHECK",
   FOREIGNKEY |-> "SQLITE_CONSTRAINT_FOREIGNKEY"]

ErrorColumns == {"", "id", "email", "name"}

ConstraintErrors ==
  {SqliteError(t[2], ConstraintMessages[t[1]], t[3]) :
     t \in {u \in (DOMAIN ConstraintMessages)
                    \X ({"SQLITE_CONSTRAINT"} \cup {ExtendedCode[x] : x \in DOMAIN ExtendedCode})
                    \X ErrorColumns :
              u[2] \in {"SQLITE_CONSTRAINT", ExtendedCode[u[1]]}}}

OtherErrors ==
  {SqliteError("SQLITE_BUSY", "database is locked", ""),
   SqliteError("SQLITE_READONLY", "attempt to write a readonly database", ""),
   SqliteError("SQLITE_FULL", "database or disk is full", ""),
   SqliteError("SQLITE_ERROR", "no such table", ""),
   SqliteError("SQLITE_IOERR", "disk I/O error", ""),
   SqliteError("SQLITE_CORRUPT", "database disk image is malformed", "")}

NativeErrors == ConstraintErrors \cup OtherErrors

\* the catch block of a machine: the error is normalized and handed to the
\* exit its footprint selects
Catch ==
  \E op \in {"create", "createEach", "update"}, e \in NativeErrors :
    \E err \in {processNativeError(e)} :
      /\ last' = [op |-> op, exit |-> ExitOf(err), err |-> Handled(ExitOf(err), err),
                  result |-> <<>>]
      /\ call' = [op |-> op, thrown |-> e]
      /\ UNCHANGED <<db, inTransaction, journal, pending, executed, txBase, txCreated, schema, registeredDsEntries, registeredDryModels>>

NextCatch == Catch

SpecCatch == Init /\ [][NextCatch]_vars

\* C24: a constraint violation that is not a uniqueness violation (NOT NULL,
\* CHECK, FOREIGN KEY, under whatever constraint code the driver reports) is
\* normalized to the kind violation, a locked database to busy, a read-only
\* database to readonly, a full disk to full, and every error that is none of
\* these nor a uniqueness violation to the catch-all kind.
C24_EveryErrorHasItsKind ==
  (last.op \in {"create", "createEach", "update"} /\ "thrown" \in DOMAIN call) =>
    LET e == call.thrown
        kind == last.err.identity
    IN  /\ (e.msg \in {"NOT NULL constraint failed", "CHECK constraint failed",
                       "FOREIGN KEY constraint failed"}) => (kind = "violation")
        /\ (e.code = "SQLITE_BUSY") => (kind = "busy")
        /\ (e.code = "SQLITE_READONLY") => (kind = "readonly")
        /\ (e.code = "SQLITE_FULL") => (kind = "full")
        /\ (e.code \in {"SQLITE_ERROR", "SQLITE_IOERR", "SQLITE_CORRUPT"}) => (kind = "catchall")

\* C25: when reifying the values or compiling the criteria of create,
\* createEach or update fails, the call ends with the error and has run no
\* statement, BEGIN included; for a primary key that is neither a number nor
\* a string the error is E_INVALID_PK.
C25_MarshalFailureRunsNothing ==
  last.op \in {"create", "createEach", "update"} =>
    /\ (\/ \E k \in 1..Len(call.records) : invalidPrimaryKey(call.records[k])
        \/ HasUnknown(call.where))
         => last.exit = "error" /\ executed = <<>>
    /\ (\E k \in 1..Len(call.records) : invalidPrimaryKey(call.records[k]))
         => last.err.code = "E_INVALID_PK"

\* ---------------------------------------------------- registering datastores
DatastoreNames == {"", "default", "other"}
ModelIdentities == {"user", "pet"}
ModelLists == UNION {Orders(S) : S \in SUBSET ModelIdentities}

Registered(op, out, datastoreName, models) ==
  /\ registeredDsEntries' = out.dsEntries
  /\ registeredDryModels' = out.dryModels
  /\ last' = [op |-> op, exit |-> out.exit, err |-> out.err, result |-> <<>>]
  /\ call' = [datastore |-> datastoreName, models |-> models,
              before |-> [dsEntries |-> registeredDsEntries,
                          dryModels |-> registeredDryModels]]

RegisterDatastore ==
  \E datastoreName \in DatastoreNames, models \in ModelLists, managerCreated \in BOOLEAN :
    \E out \in {registerDatastore(registeredDsEntries, registeredDryModels,
                                  datastoreName, models, managerCreated)} :
      /\ Registered("registerDatastore", out, datastoreName, models)
      /\ UNCHANGED <<db, inTransaction, journal, pending, executed, txBase, txCreated, schema>>

Teardown ==
  \E datastoreName \in DatastoreNames, managerDestroyed \in BOOLEAN :
    \E out \in {teardown(registeredDsEntries, registeredDryModels,
                         datastoreName, managerDestroyed)} :
      /\ Registered("teardown", out, datastoreName, <<>>)
      /\ UNCHANGED <<db, inTransaction, journal, pending, executed, txBase, txCreated, schema>>

NextRegistry == RegisterDatastore \/ Teardown

SpecRegistry == Init /\ [][NextRegistry]_vars

\* the models that were registered with a datastore
ModelsOf(dryModels, datastoreName) ==
  {m \in DOMAIN dryModels : dryModels[m].registeredWith = datastoreName}

\* C26: after a successful teardown of a datastore, the datastore is not in
\* the registry, no model that was registered with it is, and registering
\* it again with the same models succeeds.
C26_TeardownUnregistersModels ==
  (last.op = "teardown" /\ last.exit = "success") =>
    /\ call.datastore \notin registeredDsEntries
    /\ ModelsOf(registeredDryModels, call.datastore) = {}
    /\ \A models \in Orders(ModelsOf(call.before.dryModels, call.datastore)) :
         registerDatastore(registeredDsEntries, registeredDryModels,
                           call.datastore, models, TRUE).exit = "success"

\* C28: a registerDatastore that reports an error leaves both dictionaries
\* as they were before the call.
C28_FailedRegisterLeavesRegistry ==
  (last.op = "registerDatastore" /\ last.exit = "error") =>
    /\ registeredDsEntries = call.before.dsEntries
    /\ registeredDryModels = call.before.dryModels

\* ------------------------------------------- calls inside an open transaction
\* define on the connection: BEGIN, CREATE TABLE and its indexes, COMMIT, or
\* ROLLBACK when a statement failed; the three transaction statements are run
\* only when the connection was not in a transaction already
defineInTransaction(c, failed) ==
  LET wasInTransaction == c.inTransaction
      c1 == IF ~wasInTransaction THEN ExecBegin(c) ELSE c
  IN  IF failed
        THEN Outcome(IF ~wasInTransaction THEN ExecRollback(c1) ELSE c1, "error",
                     Raw(JsError("Error defining table")), <<>>)
      ELSE Outcome(IF ~wasInTransaction THEN ExecCommit(c1) ELSE c1, "success",
                   NoError, <<>>)

DefineTable ==
  \E tableName \in TableNames, autoIncrement \in BOOLEAN, failed \in BOOLEAN :
    \E out \in {defineInTransaction(conn, failed)} :
      /\ db' = out.conn.db
      /\ inTransaction' = out.conn.inTransaction
      /\ journal' = out.conn.journal
      /\ last' = [op |-> "define", exit |-> out.exit, err |-> out.err, result |-> out.result]
      /\ call' = NoCall
      /\ pending' = NoPending
      /\ executed' = NoStatements
      /\ txBase' = IF inTransaction THEN txBase ELSE NoRows
      /\ txCreated' = IF inTransaction THEN txCreated ELSE {}
      /\ schema' = IF failed THEN schema
                   ELSE definePhysicalModel(schema, tableName, autoIncrement).catalog
      /\ UNCHANGED <<registeredDsEntries, registeredDryModels>>

NextOpenTransaction == Create \/ BeginTransaction \/ Destroy \/ DefineTable

SpecOpenTransaction == Init /\ [][NextOpenTransaction]_vars

\* C27: a define or a destroy made while the caller's transaction is open
\* neither commits it nor rolls it back: the connection is still in the
\* transaction afterwards, what a rollback would restore is the same, and a
\* call that failed has left the uncommitted rows as they were.
C27_CallerTransactionKept ==
  [][(inTransaction /\ last'.op \in {"define", "destroy"}) =>
       /\ inTransaction'
       /\ journal' = journal
       /\ last'.exit # "success" => db' = db]_vars

\* ------------------------------------------------------- the two read paths
\* processNativeRecord on a row: every attribute of the model is visited, and
\* a boolean attribute is assigned whether the row has its column or not
\* (!!undefined is false)
processNativeRow(nativeRecord) ==
  [attr \in DOMAIN nativeRecord \cup {b \in Attributes : AttrType(b) = "boolean"} |->
     IF attr \in DOMAIN nativeRecord
       THEN processNativeRecord([type |-> AttrType(attr)], nativeRecord[attr])
     ELSE JsBoolean(FALSE)]

\* Number(value)
Number(value) ==
  IF value.type = "null" THEN JsNumber(<<"0">>)
  ELSE IF value.type = "number" THEN value
  ELSE IF value.type = "boolean" THEN JsNumber(IF Truthy(value) THEN <<"1">> ELSE <<"0">>)
  ELSE IF value.chars = <<>> THEN JsNumber(<<"0">>)
  ELSE IF LooksNumeric(value.chars) THEN JsNumber(value.chars)
  ELSE JsNumber(<<"NaN">>)

\* processEachRecord on one attribute's value, for a column the record has
processEachRecord(attrDef, value) ==
  IF attrDef.type = "boolean"
    THEN IF value.type = "boolean" THEN value ELSE JsBoolean(value = JsNumber(<<"1">>))
  ELSE IF attrDef.type = "json"
    THEN IF value.type = "null" THEN value ELSE parse(value.chars)
  ELSE IF attrDef.type = "number" THEN Number(value)
  ELSE value

\* ... and on a row: only the columns in the record are touched
processEachRow(record) ==
  [attr \in DOMAIN record |-> processEachRecord([type |-> AttrType(attr)], record[attr])]

\* the row the driver returns for the selected columns of a record the
\* adapter wrote
nativeRow(model, newRecord, select) ==
  [attr \in select |->
     column(stored(getSqliteType(model[attr]),
                   reifyValuesToSet([type |-> AttrType(attr)], newRecord[attr])))]

SelectInputs == (SUBSET Attributes) \ {{}}

\* find: the row through processNativeRecord
Find ==
  /\ last.op = "none"
  /\ \E model \in ModelInputs, newRecord \in RecordInputs, select \in SelectInputs :
       \E nativeRecord \in {nativeRow(model, newRecord, select)} :
         /\ last' = [op |-> "find", exit |-> "success", err |-> NoError,
                     result |-> <<processNativeRow(nativeRecord)>>]
         /\ call' = [model |-> model, select |-> select, nativeRecord |-> nativeRecord]
         /\ executed' = <<nativeRecord>>
  /\ UNCHANGED <<db, inTransaction, journal, pending, txBase, txCreated, schema, registeredDsEntries, registeredDryModels>>

\* join: the row, as a parent record, through processEachRecord
Join ==
  /\ last.op = "none"
  /\ \E model \in ModelInputs, newRecord \in RecordInputs, select \in SelectInputs :
       \E nativeRecord \in {nativeRow(model, newRecord, select)} :
         /\ last' = [op |-> "join", exit |-> "success", err |-> NoError,
                     result |-> <<processEachRow(nativeRecord)>>]
         /\ call' = [model |-> model, select |-> select, nativeRecord |-> nativeRecord]
         /\ executed' = <<nativeRecord>>
  /\ UNCHANGED <<db, inTransaction, journal, pending, txBase, txCreated, schema, registeredDsEntries, registeredDryModels>>

NextRead == Find \/ Join

SpecRead == Init /\ [][NextRead]_vars

\* C29: a record find returns has exactly the columns of the native row:
\* with a select, the selected columns and no other key.
C29_FindAddsNoKey ==
  last.op = "find" => DOMAIN last.result[1] = DOMAIN call.nativeRecord

\* C30: for every boolean, JSON and number attribute and every stored
\* value, the record find returns and the record join returns for the same
\* row have equal values.
C30_ReadPathsAgree ==
  /\ last.op = "find" =>
        \A attr \in DOMAIN call.nativeRecord :
          last.result[1][attr]
            = processEachRecord([type |-> AttrType(attr)], call.nativeRecord[attr])
  /\ last.op = "join" =>
        \A attr \in DOMAIN call.nativeRecord :
          last.result[1][attr]
            = processNativeRecord([type |-> AttrType(attr)], call.nativeRecord[attr])

====
